---- MODULE Spec2Model ----
(***************************************************************************)
(* Model of the authentication and permission core of node-backend:        *)
(* the JWT codec (utils/jwt.ts), the permission resolver                   *)
(* (utils/permissions.ts), the two gates (middlewares/auth.middleware.ts,  *)
(* middlewares/permission.middleware.ts) and the user, role and login      *)
(* handlers that write the stores the core reads.                          *)
(*                                                                         *)
(* Strings to which the code applies toUpperCase / toLowerCase / trim /    *)
(* split are sequences of one-character strings; strings that the code     *)
(* only compares or tests for emptiness are TLA+ strings.                  *)
(***************************************************************************)
EXTENDS Integers, Sequences, FiniteSets, TLC

VARIABLES
  env,       \* process.env: the four JWT settings
  now,       \* the clock, in seconds
  payload,   \* codec: the JwtPayload handed to generateToken
  pair,      \* codec: what generateToken returned or threw
  vcall,     \* codec: the last verifyToken / verifyRefreshToken call and its outcome
  roles,     \* the roles collection, a sequence of role documents (index = _id)
  users,     \* the users collection, a sequence of user documents (index = _id)
  issued,    \* the outcomes of the login calls that answered 200
  reqs,      \* the requests under /api/users, one record per request
  hpcall,    \* resolver: the last hasPermission call and its outcome
  call,      \* controllers and seeders: the last direct call and its outcome
  revoked,   \* history: <<role codes, permission>> pairs whose only granting role was deactivated
  proc       \* the server process: startServer, gracefulShutdown and the MongoDB connection

vars == <<env, now, payload, pair, vcall, roles, users, issued, reqs, hpcall, call, revoked, proc>>

----------------------------------------------------------------------------
(* Bounds *)

MaxTime == 3          \* the clock stops here
MaxExpiry == 2        \* longest configured token lifetime, in seconds

----------------------------------------------------------------------------
(* JavaScript string primitives *)

LowerChars == <<"a","b","c","d","e","f","g","h","i","j","k","l","m",
                "n","o","p","q","r","s","t","u","v","w","x","y","z">>
UpperChars == <<"A","B","C","D","E","F","G","H","I","J","K","L","M",
                "N","O","P","Q","R","S","T","U","V","W","X","Y","Z">>

\* the upper-case and lower-case forms of the letters
UpperOf == [c \in {LowerChars[i] : i \in 1..26} |->
              UpperChars[CHOOSE i \in 1..26 : LowerChars[i] = c]]
LowerOf == [c \in {UpperChars[i] : i \in 1..26} |->
              LowerChars[CHOOSE i \in 1..26 : UpperChars[i] = c]]

UpperChar(c) == IF c \in DOMAIN UpperOf THEN UpperOf[c] ELSE c

LowerChar(c) == IF c \in DOMAIN LowerOf THEN LowerOf[c] ELSE c

toUpperCase(s) == [i \in 1..Len(s) |-> UpperChar(s[i])]

toLowerCase(s) == [i \in 1..Len(s) |-> LowerChar(s[i])]

IsWhiteSpace(c) == c \in {" ", "\t", "\n"}

RECURSIVE trimStart(_)
trimStart(s) ==
  IF s # <<>> /\ IsWhiteSpace(Head(s)) THEN trimStart(Tail(s)) ELSE s

RECURSIVE trimEnd(_)
trimEnd(s) ==
  IF s # <<>> /\ IsWhiteSpace(s[Len(s)]) THEN trimEnd(SubSeq(s, 1, Len(s) - 1)) ELSE s

trim(s) == trimEnd(trimStart(s))

SeqToSet(s) == {s[i] : i \in 1..Len(s)}

----------------------------------------------------------------------------
(* process.env *)

Unset == ""              \* an environment variable that is undefined or '' (both falsy)
BadSpan == "abc"         \* a value that is set but is no timespan

Span(n) == ToString(n) \o "s"     \* "1s", "2s", ...

SecretValues == {Unset, "k1", "k2"}
ExpiryValues == {Unset, BadSpan} \cup {Span(n) : n \in 1..MaxExpiry}

Envs == [JWT_SECRET : SecretValues, JWT_REFRESH_SECRET : SecretValues,
         ACCESS_EXPIRES_IN : ExpiryValues, REFRESH_EXPIRES_IN : ExpiryValues]

AllConfigured(e) ==
  /\ e.JWT_SECRET # Unset /\ e.JWT_REFRESH_SECRET # Unset
  /\ e.ACCESS_EXPIRES_IN # Unset /\ e.REFRESH_EXPIRES_IN # Unset

----------------------------------------------------------------------------
(* Results: a call either returns a value or throws an error object *)

Return(v) == [ok |-> TRUE, value |-> v]
Throw(e) == [ok |-> FALSE, error |-> e]

JwtError(message, code) == [class |-> "JwtError", message |-> message, code |-> code]

PlainError(message) == [class |-> "Error", message |-> message]

----------------------------------------------------------------------------
(* The libraries jwt.ts calls: ms and jsonwebtoken *)

\* ms(value): the number of seconds of a timespan string, undefined (here -1) otherwise
ms(s) ==
  IF \E n \in 1..MaxExpiry : s = Span(n)
  THEN CHOOSE n \in 1..MaxExpiry : s = Span(n)
  ELSE -1

\* the error classes of jsonwebtoken and of jwt.ts, each with its superclass;
\* TokenExpiredError and NotBeforeError extend JsonWebTokenError
SuperClass(c) ==
  CASE c = "TokenExpiredError" -> "JsonWebTokenError"
    [] c = "NotBeforeError" -> "JsonWebTokenError"
    [] c = "JsonWebTokenError" -> "Error"
    [] c = "JwtError" -> "Error"
    [] OTHER -> "Object"

\* error instanceof cls
InstanceOf(error, cls) ==
  \/ error.class = cls
  \/ SuperClass(error.class) = cls
  \/ SuperClass(SuperClass(error.class)) = cls

LibError(class, message) == [class |-> class, message |-> message]

\* the HMAC of a token body under an algorithm and a key
Hmac(alg, key, body) == [alg |-> alg, key |-> key, body |-> body]

\* jwt.sign(payload, secret, {expiresIn, algorithm}) at time t: a token string,
\* here a one-lexeme sequence
jwtSign(p, secret, expiresIn, alg, t) ==
  IF ms(expiresIn) = -1
  THEN Throw(LibError("Error", "\"expiresIn\" should be a number of seconds or string representing a timespan"))
  ELSE LET body == p @@ [iat |-> t, exp |-> t + ms(expiresIn)]
       IN Return(<<[kind |-> "jwt", alg |-> alg, body |-> body, sig |-> Hmac(alg, secret, body)]>>)

\* jwt.verify(token, secret, {algorithms}) at time t
jwtVerify(token, secret, algorithms, t) ==
  IF Len(token) # 1 \/ token[1].kind # "jwt"
  THEN Throw(LibError("JsonWebTokenError", "jwt malformed"))
  ELSE LET j == token[1] IN
    IF j.alg \notin algorithms
    THEN Throw(LibError("JsonWebTokenError", "invalid algorithm"))
    ELSE IF j.sig # Hmac(j.alg, secret, j.body)
    THEN Throw(LibError("JsonWebTokenError", "invalid signature"))
    ELSE IF t >= j.body.exp
    THEN Throw(LibError("TokenExpiredError", "jwt expired"))
    ELSE Return(j.body)

----------------------------------------------------------------------------
(* utils/jwt.ts *)

getJwtSecret(e) ==
  IF e.JWT_SECRET = Unset
  THEN Throw(JwtError("JWT_SECRET is not configured", "MISSING_SECRET"))
  ELSE Return(e.JWT_SECRET)

getJwtRefreshSecret(e) ==
  IF e.JWT_REFRESH_SECRET = Unset
  THEN Throw(JwtError("JWT_REFRESH_SECRET is not configured", "MISSING_REFRESH_SECRET"))
  ELSE Return(e.JWT_REFRESH_SECRET)

getTokenExpiration(e, type) ==
  LET expiresIn == IF type = "access" THEN e.ACCESS_EXPIRES_IN ELSE e.REFRESH_EXPIRES_IN
  IN IF expiresIn = Unset
     THEN Throw(JwtError((IF type = "access" THEN "ACCESS" ELSE "REFRESH") \o "_EXPIRES_IN is not configured",
                         "MISSING_EXPIRATION"))
     ELSE Return(expiresIn)

\* the expiry timestamp; the formatted 'YYYY-MM-DD HH:mm:ss' string is kept as the second it names
calculateExpiry(expiresIn, t) ==
  IF ms(expiresIn) = -1
  THEN Throw(JwtError("Failed to calculate token expiry", "EXPIRY_CALCULATION_ERROR"))
  ELSE Return(t + ms(expiresIn))

\* a property that is undefined, null, '' or absent is falsy; an array, also an empty one, is truthy
Falsy(obj, field) == field \notin DOMAIN obj \/ obj[field] = ""

PayloadInvalid(p) == Falsy(p, "user_id") \/ "role" \notin DOMAIN p

\* the catch block of generateToken
generateTokenCatch(error) ==
  IF InstanceOf(error, "JwtError") THEN Throw(error)
  ELSE Throw(JwtError("Failed to generate token: " \o error.message, "TOKEN_GENERATION_ERROR"))

generateToken(p, e, t) ==
  IF PayloadInvalid(p)
  THEN Throw(JwtError("Invalid payload: user_id and role are required", "INVALID_PAYLOAD"))
  ELSE LET accessExpiresIn == getTokenExpiration(e, "access")
           refreshExpiresIn == getTokenExpiration(e, "refresh")
           jwtSecret == getJwtSecret(e)
           jwtRefreshSecret == getJwtRefreshSecret(e)
       IN IF ~accessExpiresIn.ok THEN accessExpiresIn
          ELSE IF ~refreshExpiresIn.ok THEN refreshExpiresIn
          ELSE IF ~jwtSecret.ok THEN jwtSecret
          ELSE IF ~jwtRefreshSecret.ok THEN jwtRefreshSecret
          ELSE LET access_token == jwtSign(p, jwtSecret.value, accessExpiresIn.value, "HS512", t)
                   refresh_token == jwtSign(p, jwtRefreshSecret.value, refreshExpiresIn.value, "HS256", t)
                   token_expiry == calculateExpiry(accessExpiresIn.value, t)
                   refresh_token_expiry == calculateExpiry(refreshExpiresIn.value, t)
               IN IF ~access_token.ok THEN generateTokenCatch(access_token.error)
                  ELSE IF ~refresh_token.ok THEN generateTokenCatch(refresh_token.error)
                  ELSE IF ~token_expiry.ok THEN generateTokenCatch(token_expiry.error)
                  ELSE IF ~refresh_token_expiry.ok THEN generateTokenCatch(refresh_token_expiry.error)
                  ELSE Return([access_token |-> access_token.value,
                               refresh_token |-> refresh_token.value,
                               token_expiry |-> token_expiry.value,
                               refresh_token_expiry |-> refresh_token_expiry.value])

\* verifyToken returning what jwt.verify decoded, iat and exp included
DecodedClaims(decoded) == decoded

\* { user_id: decoded.user_id, email: decoded.email, role: decoded.role };
\* a property whose value is undefined is the same as an absent one
Identity(decoded) ==
  [f \in {"user_id", "email", "role"} \cap DOMAIN decoded |-> decoded[f]]

\* a catch block that throws on what it caught
verifyTokenCatchRethrow(error) == Throw(error)

\* the catch block of verifyToken: the instanceof tests in the order of the code
verifyTokenCatch(error) ==
  IF InstanceOf(error, "JwtError") THEN Throw(error)
  ELSE IF InstanceOf(error, "JsonWebTokenError")
  THEN Throw(JwtError("Invalid token: " \o error.message, "INVALID_TOKEN"))
  ELSE IF InstanceOf(error, "TokenExpiredError")
  THEN Throw(JwtError("Token has expired", "TOKEN_EXPIRED"))
  ELSE IF InstanceOf(error, "NotBeforeError")
  THEN Throw(JwtError("Token not active yet", "TOKEN_NOT_ACTIVE"))
  ELSE Throw(JwtError("Token verification failed: " \o error.message, "VERIFICATION_ERROR"))

\* a verifier that accepts both algorithms of generateToken
BothAlgorithms == {"HS512", "HS256"}

AccessAlgorithms == {"HS512"}

verifyToken(token, e, t) ==
  IF token = <<>>
  THEN Throw(JwtError("Token is required", "MISSING_TOKEN"))
  ELSE LET jwtSecret == getJwtSecret(e) IN
    IF ~jwtSecret.ok THEN verifyTokenCatch(jwtSecret.error)
    ELSE LET decoded == jwtVerify(token, jwtSecret.value, AccessAlgorithms, t) IN
      IF ~decoded.ok THEN verifyTokenCatch(decoded.error)
      ELSE IF PayloadInvalid(decoded.value)
      THEN verifyTokenCatch(JwtError("Invalid token payload", "INVALID_TOKEN_PAYLOAD"))
      ELSE Return(Identity(decoded.value))

\* the catch block of verifyRefreshToken
verifyRefreshTokenCatch(error) ==
  IF InstanceOf(error, "JwtError") THEN Throw(error)
  ELSE IF InstanceOf(error, "JsonWebTokenError")
  THEN Throw(JwtError("Invalid refresh token: " \o error.message, "INVALID_REFRESH_TOKEN"))
  ELSE IF InstanceOf(error, "TokenExpiredError")
  THEN Throw(JwtError("Refresh token has expired", "REFRESH_TOKEN_EXPIRED"))
  ELSE IF InstanceOf(error, "NotBeforeError")
  THEN Throw(JwtError("Refresh token not active yet", "REFRESH_TOKEN_NOT_ACTIVE"))
  ELSE Throw(JwtError("Refresh token verification failed: " \o error.message, "REFRESH_VERIFICATION_ERROR"))

RefreshAlgorithms == {"HS256"}

verifyRefreshToken(refreshToken, e, t) ==
  IF refreshToken = <<>>
  THEN Throw(JwtError("Refresh token is required", "MISSING_REFRESH_TOKEN"))
  ELSE LET jwtRefreshSecret == getJwtRefreshSecret(e) IN
    IF ~jwtRefreshSecret.ok THEN verifyRefreshTokenCatch(jwtRefreshSecret.error)
    ELSE LET decoded == jwtVerify(refreshToken, jwtRefreshSecret.value, RefreshAlgorithms, t) IN
      IF ~decoded.ok THEN verifyRefreshTokenCatch(decoded.error)
      ELSE IF PayloadInvalid(decoded.value)
      THEN verifyRefreshTokenCatch(JwtError("Invalid refresh token payload", "INVALID_TOKEN_PAYLOAD"))
      ELSE Return(Identity(decoded.value))

----------------------------------------------------------------------------
(* Names used as data: role codes and permissions of the seeders and routes *)

ADMIN == <<"A","D","M","I","N">>
USER == <<"U","S","E","R">>
USER_READ == <<"U","S","E","R","_","R","E","A","D">>
USER_DELETE == <<"U","S","E","R","_","D","E","L","E","T","E">>

\* a string with a space before and after it
Padded(s) == <<" ">> \o s \o <<" ">>

NotCalled == [called |-> FALSE]

\* no server process is looked at
NoProcess == [pc |-> "none"]

----------------------------------------------------------------------------
(* The roles collection and utils/permissions.ts *)

\* a role document; its _id is its index in the collection
RoleDoc(name, code, permissions, active) ==
  [name |-> name, code |-> code, permissions |-> permissions, active |-> active]

\* the concatenation of a sequence of sequences: Array.prototype.flatMap / flat
RECURSIVE flat(_)
flat(ss) == IF ss = <<>> THEN <<>> ELSE Head(ss) \o flat(Tail(ss))

\* the indices of a sequence that satisfy a test, in order: Array.prototype.filter / a query
RECURSIVE SelectIdx(_, _, _)
SelectIdx(s, Test(_), i) ==
  IF i > Len(s) THEN <<>>
  ELSE (IF Test(s[i]) THEN <<i>> ELSE <<>>) \o SelectIdx(s, Test, i + 1)

\* the query without its active: true condition
findRolesByCode(rs, codes) ==
  LET Match(r) == r.code \in SeqToSet(codes)
      idx == SelectIdx(rs, Match, 1)
  IN [k \in 1..Len(idx) |-> rs[idx[k]]]

\* Role.find({ code: { $in: codes }, active: true }): the matching documents in _id order
findActiveRolesByCode(rs, codes) ==
  LET Match(r) == r.active /\ r.code \in SeqToSet(codes)
      idx == SelectIdx(rs, Match, 1)
  IN [k \in 1..Len(idx) |-> rs[idx[k]]]

\* the outcome of the awaited query: the documents, or a rejection of the driver
LookupOutcomes(rs, codes) ==
  {Return(findActiveRolesByCode(rs, codes)), Throw(PlainError("MongoNetworkError"))}

\* a catch block that lets the caller in when the check failed
hasPermissionCatchOpen(error) == TRUE

\* the catch block of hasPermission: the error is logged and the answer is false
hasPermissionCatch(error) == FALSE

\* hasPermission comparing the permission as the caller wrote it
hasPermissionExact(user, permission, lookup) ==
  IF "role" \notin DOMAIN user \/ Len(user.role) = 0 THEN FALSE
  ELSE IF ~lookup.ok THEN FALSE
  ELSE LET found == lookup.value
           granted == flat([k \in 1..Len(found) |-> found[k].permissions])
       IN permission \in {trim(toUpperCase(granted[k])) : k \in 1..Len(granted)}

\* hasPermission(user, permission), given the outcome of its Role.find
hasPermission(user, permission, lookup) ==
  IF "role" \notin DOMAIN user \/ Len(user.role) = 0 THEN FALSE
  ELSE IF ~lookup.ok THEN hasPermissionCatch(lookup.error)
  ELSE LET found == lookup.value IN
    IF Len(found) = 0 THEN FALSE
    ELSE LET granted == flat([k \in 1..Len(found) |-> found[k].permissions])
             allPermissions == {trim(toUpperCase(granted[k])) : k \in 1..Len(granted)}
         IN trim(toUpperCase(permission)) \in allPermissions

\* the case-normalised form of a permission
Normalized(s) == trim(toUpperCase(s))

\* some active role whose code is one of the role codes has a permission with the
\* same normalised form as p
Grants(rs, codes, p) ==
  \E i \in 1..Len(rs) :
    /\ rs[i].active
    /\ \E j \in 1..Len(codes) : codes[j] = rs[i].code
    /\ \E k \in 1..Len(rs[i].permissions) : Normalized(rs[i].permissions[k]) = Normalized(p)

\* whether hasPermission awaits a lookup at all
MakesLookup(user) == "role" \in DOMAIN user /\ Len(user.role) > 0

----------------------------------------------------------------------------
(* utils/response.ts and middlewares/auth.middleware.ts *)

Null == [null |-> TRUE]             \* the value null
Undefined == [undefined |-> TRUE]   \* an argument that is not passed

\* errorResponse(res, message, error, statusCode): the status and JSON body sent
errorResponse(message, error, statusCode) ==
  [status |-> statusCode,
   body |-> IF error = Undefined
            THEN [success |-> FALSE, message |-> message]
            ELSE [success |-> FALSE, message |-> message, error |-> error]]

\* successResponse(res, message, data, statusCode)
successResponse(message, data, statusCode) ==
  [status |-> statusCode,
   body |-> IF data = Undefined
            THEN [success |-> TRUE, message |-> message]
            ELSE [success |-> TRUE, message |-> message, data |-> data]]

\* the lexemes of a header string: a space, a word without spaces, a JWT
SP == [kind |-> "sp"]
Word(text) == [kind |-> "word", text |-> text]
Bearer == Word("Bearer")

\* String.prototype.split(' '): the parts between the spaces, at least one
RECURSIVE split(_)
split(s) ==
  IF \A i \in 1..Len(s) : s[i] # SP THEN <<s>>
  ELSE LET i == CHOOSE k \in 1..Len(s) : s[k] = SP /\ \A m \in 1..(k - 1) : s[m] # SP
       IN <<SubSeq(s, 1, i - 1)>> \o split(SubSeq(s, i + 1, Len(s)))

NoUser == [set |-> FALSE]

\* what a middleware did to a request: the responses it sent, whether it called
\* next, req.user afterwards, and its verifyToken call
GateOutcome(sent, next, user, verify) ==
  [sent |-> sent, next |-> next, user |-> user, verify |-> verify]

\* a catch block that answers every failure alike
authenticateCatchAll(error) == errorResponse("Authentication failed", Null, 401)

\* the catch block of authenticate
authenticateCatch(error) ==
  IF InstanceOf(error, "JwtError")
  THEN errorResponse(error.message, [code |-> error.code], 401)
  ELSE errorResponse("Authentication failed", error, 401)

\* authenticate testing only the number of parts of the header, not the scheme
authenticateAnyScheme(headers, e, t) ==
  IF "authorization" \notin DOMAIN headers \/ headers.authorization = <<>>
  THEN GateOutcome(<<errorResponse("Authorization header is required", Null, 401)>>,
                   FALSE, NoUser, NotCalled)
  ELSE LET parts == split(headers.authorization) IN
    IF Len(parts) # 2
    THEN GateOutcome(<<errorResponse("Invalid authorization header format. Use: Bearer <token>", Null, 401)>>,
                     FALSE, NoUser, NotCalled)
    ELSE LET decoded == verifyToken(parts[2], e, t)
             verify == [called |-> TRUE, token |-> parts[2], result |-> decoded]
         IN IF decoded.ok
            THEN GateOutcome(<<>>, TRUE, [set |-> TRUE, value |-> decoded.value], verify)
            ELSE GateOutcome(<<authenticateCatch(decoded.error)>>, FALSE, NoUser, verify)

\* authenticate(req, res, next) on a request with these headers
authenticate(headers, e, t) ==
  IF "authorization" \notin DOMAIN headers \/ headers.authorization = <<>>
  THEN GateOutcome(<<errorResponse("Authorization header is required", Null, 401)>>,
                   FALSE, NoUser, NotCalled)
  ELSE LET parts == split(headers.authorization) IN
    IF Len(parts) # 2 \/ parts[1] # <<Bearer>>
    THEN GateOutcome(<<errorResponse("Invalid authorization header format. Use: Bearer <token>", Null, 401)>>,
                     FALSE, NoUser, NotCalled)
    ELSE LET token == parts[2]
             decoded == verifyToken(token, e, t)
             verify == [called |-> TRUE, token |-> token, result |-> decoded]
         IN IF decoded.ok
            THEN GateOutcome(<<>>, TRUE, [set |-> TRUE, value |-> decoded.value], verify)
            ELSE GateOutcome(<<authenticateCatch(decoded.error)>>, FALSE, NoUser, verify)

----------------------------------------------------------------------------
(* Requests under /api/users: routes/index.ts and routes/user.routes.ts *)

Route(method, path, permission, upload, handler) ==
  [method |-> method, path |-> path, permission |-> permission,
   upload |-> upload, handler |-> handler]

USER_CREATE == <<"U","S","E","R","_","C","R","E","A","T","E">>
USER_UPDATE == <<"U","S","E","R","_","U","P","D","A","T","E">>
USER_READ_SELF == USER_READ \o <<"_","S","E","L","F">>
USER_UPDATE_SELF == USER_UPDATE \o <<"_","S","E","L","F">>

\* router.<method>(path, requirePermission(permission), [imageUploadMiddleware,] handler)
UserRoutes ==
  {Route("GET", "/profile", USER_READ_SELF, FALSE, "getMyProfile"),
   Route("POST", "/profile", USER_UPDATE_SELF, TRUE, "updateMyProfile"),
   Route("GET", "/", USER_READ, FALSE, "getAllUsers"),
   Route("GET", "/:id", USER_READ, FALSE, "getUserById"),
   Route("POST", "/", USER_CREATE, TRUE, "createUser"),
   Route("POST", "/:id", USER_UPDATE, TRUE, "updateUser"),
   Route("DELETE", "/:id", USER_DELETE, FALSE, "deleteUser")}

\* a request slot that holds no request
Idle == [pc |-> "idle"]

\* a request that has reached app.use('/api/users', authenticate, userRoutes)
NewRequest(route, headers) ==
  [pc |-> "authenticate", route |-> route, headers |-> headers,
   user |-> NoUser, verify |-> NotCalled, check |-> NotCalled, sent |-> <<>>, trace |-> <<>>]

\* the request after authenticate has run on it
AfterAuthenticate(r, e, t) ==
  LET out == authenticate(r.headers, e, t) IN
    [r EXCEPT !.pc = IF out.next THEN "requirePermission" ELSE "done",
              !.user = out.user,
              !.verify = out.verify,
              !.sent = r.sent \o out.sent,
              !.trace = r.trace \o <<"authenticate">>
                          \o (IF out.verify.called THEN <<"verifyToken">> ELSE <<>>)
                          \o (IF out.next THEN <<"next">> ELSE <<>>)]

\* a request for a route of R with headers of H arrives on the free connection
Receive(i, R, H) ==
  /\ reqs[i].pc = "idle"
  /\ \E route \in R, headers \in H :
       reqs' = [reqs EXCEPT ![i] = NewRequest(route, headers)]
  /\ UNCHANGED <<env, now, payload, pair, vcall, roles, users, issued, hpcall, call, revoked, proc>>

\* the answered request leaves and the connection is free again
Close(i) ==
  /\ reqs[i].pc = "done"
  /\ reqs' = [reqs EXCEPT ![i] = Idle]
  /\ UNCHANGED <<env, now, payload, pair, vcall, roles, users, issued, hpcall, call, revoked, proc>>

\* an authenticate that looks the token's user up and rejects a deactivated one
AuthenticateActiveUser(i) ==
  /\ reqs[i].pc = "authenticate"
  /\ \E r \in {AfterAuthenticate(reqs[i], env, now)} :
       reqs' = [reqs EXCEPT ![i] =
                  IF r.user.set /\ \E u \in 1..Len(users) :
                                    users[u].email = r.user.value.email /\ ~users[u].active
                  THEN [r EXCEPT !.pc = "done", !.user = NoUser,
                                 !.sent = <<errorResponse("Authentication failed", Null, 401)>>,
                                 !.trace = reqs[i].trace \o <<"authenticate", "verifyToken">>]
                  ELSE r]
  /\ UNCHANGED <<env, now, payload, pair, vcall, roles, users, issued, hpcall, call, revoked, proc>>

\* express runs authenticate on the request
Authenticate(i) ==
  /\ reqs[i].pc = "authenticate"
  /\ reqs' = [reqs EXCEPT ![i] = AfterAuthenticate(reqs[i], env, now)]
  /\ UNCHANGED <<env, now, payload, pair, vcall, roles, users, issued, hpcall, call, revoked, proc>>

----------------------------------------------------------------------------
(* The seeders' data: database/seeders/roles.seeder.ts, admin.seeder.ts *)

SUB_ADMIN == <<"S","U","B","_">> \o ADMIN
ROLE_ == <<"R","O","L","E","_">>
ROLE_CREATE == ROLE_ \o <<"C","R","E","A","T","E">>
ROLE_READ == ROLE_ \o <<"R","E","A","D">>
ROLE_UPDATE == ROLE_ \o <<"U","P","D","A","T","E">>
ROLE_DELETE == ROLE_ \o <<"D","E","L","E","T","E">>
PERMISSION_READ == <<"P","E","R","M","I","S","S","I","O","N","_","R","E","A","D">>
PERMISSION_ASSIGN == <<"P","E","R","M","I","S","S","I","O","N","_","A","S","S","I","G","N">>
SYSTEM_CONFIG == <<"S","Y","S","T","E","M","_","C","O","N","F","I","G">>
SYSTEM_MANAGE == <<"S","Y","S","T","E","M","_","M","A","N","A","G","E">>

defaultRoles ==
  <<[name |-> <<"A","d","m","i","n">>, code |-> ADMIN,
     permissions |-> <<USER_CREATE, USER_READ, USER_UPDATE, USER_DELETE,
                       ROLE_CREATE, ROLE_READ, ROLE_UPDATE, ROLE_DELETE,
                       PERMISSION_READ, PERMISSION_ASSIGN, SYSTEM_CONFIG, SYSTEM_MANAGE>>],
    [name |-> <<"S","u","b","-","A","d","m","i","n">>, code |-> SUB_ADMIN,
     permissions |-> <<USER_READ, USER_UPDATE>>],
    [name |-> <<"U","s","e","r">>, code |-> USER,
     permissions |-> <<USER_READ_SELF, USER_UPDATE_SELF>>]>>

adminConfig ==
  [email |-> <<"a","d","m","i","n","@","e","x","a","m","p","l","e",".","c","o","m">>,
   password |-> "Admin@123456"]

----------------------------------------------------------------------------
(* models/role.model.ts and models/user.model.ts *)

\* the elements of a sequence without repetitions, in order of first occurrence: [...new Set(s)]
RECURSIVE uniq(_)
uniq(s) ==
  IF s = <<>> THEN <<>>
  ELSE LET init == uniq(SubSeq(s, 1, Len(s) - 1))
       IN IF s[Len(s)] \in SeqToSet(init) THEN init ELSE Append(init, s[Len(s)])

\* a pre('save') that keeps repeated permissions
savedPermissionsAll(permissions) ==
  [k \in 1..Len(permissions) |-> trim(toUpperCase(permissions[k]))]

\* roleSchema.pre('save'): what it stores for a modified permissions list and a
\* modified code (with the schema's setters trim and uppercase)
savedPermissions(permissions) ==
  uniq([k \in 1..Len(permissions) |-> trim(toUpperCase(permissions[k]))])

savedCode(code) == trim(toUpperCase(code))

\* a user document saved for the first time at t; its _id is its index in the
\* collection. name, profilePicture and mobileNumber are left out; timestamps: true
\* adds createdAt and updatedAt
UserDoc(email, password, roleIds, active, t) ==
  [email |-> email, password |-> password, roles |-> roleIds, active |-> active,
   createdAt |-> t, updatedAt |-> t]

\* doc.save() at t of the stored document old: with timestamps: true a document
\* that was modified gets a new updatedAt
save(old, doc, t) == IF doc = old THEN old ELSE [doc EXCEPT !.updatedAt = t]

\* bcrypt.hash of userSchema.pre('save') and bcrypt.compare of comparePassword
Hash(password) == "bcrypt:" \o password
comparePassword(candidate, stored) == stored = Hash(candidate)

\* user._id.toString() and the _id it names, 0 when no document has it
Uid(i) == "u" \o ToString(i)
findById(us, userId) ==
  IF \E i \in 1..Len(us) : Uid(i) = userId
  THEN CHOOSE i \in 1..Len(us) : Uid(i) = userId
  ELSE 0

\* User.findOne({ email }): the _id of the first match, 0 when there is none
findUserByEmail(us, email) ==
  IF \E i \in 1..Len(us) : us[i].email = email
  THEN CHOOSE i \in 1..Len(us) : us[i].email = email /\ \A j \in 1..(i - 1) : us[j].email # email
  ELSE 0

\* Role.find({ code: { $in: codes }, active: true }): the _ids of the matches
findActiveRoleIds(rs, codes) ==
  LET Match(r) == r.active /\ r.code \in SeqToSet(codes) IN SelectIdx(rs, Match, 1)

\* Role.findOne({ code: 'USER', active: true })
defaultUserRoleIds(rs) ==
  LET ids == findActiveRoleIds(rs, <<USER>>) IN IF ids = <<>> THEN <<>> ELSE <<ids[1]>>

\* populate('roles', 'code ...') and the loop that collects the codes
roleCodesOf(rs, roleIds) ==
  LET Known(id) == id \in 1..Len(rs)
      idx == SelectIdx(roleIds, Known, 1)
  IN [k \in 1..Len(idx) |-> rs[roleIds[idx[k]]].code]

----------------------------------------------------------------------------
(* controllers/auth.controller.ts *)

\* login(req, res) with a validated body: the response, and the payload signed
login(us, rs, email, password, e, t) ==
  LET id == findUserByEmail(us, trim(toLowerCase(email))) IN
    IF id = 0 THEN [response |-> errorResponse("Invalid email or password", Null, 401)]
    ELSE IF ~comparePassword(password, us[id].password)
    THEN [response |-> errorResponse("Invalid email or password", Null, 401)]
    ELSE IF ~us[id].active
    THEN [response |-> errorResponse("Your account has been deactivated. Please contact administrator.", Null, 403)]
    ELSE LET roleCodes == roleCodesOf(rs, us[id].roles)
             jwtPayload == [user_id |-> Uid(id), email |-> us[id].email, role |-> roleCodes]
             tokens == generateToken(jwtPayload, e, t)
         IN IF ~tokens.ok
            THEN [response |-> errorResponse("An error occurred during login", tokens.error, 500)]
            ELSE [response |-> successResponse("Login successful",
                                               [user |-> [id |-> id, roles |-> roleCodes],
                                                tokens |-> tokens.value], 200),
                  payload |-> jwtPayload]

----------------------------------------------------------------------------
(* controllers/role.controller.ts; the bodies are those the Joi schemas accept *)

\* Role.findOne({ $or: [{ name }, { code }] }) and Role.findOne({ name }) / ({ code })
roleWithName(rs, name) == \E i \in 1..Len(rs) : rs[i].name = name
roleWithCode(rs, code) == \E i \in 1..Len(rs) : rs[i].code = code

\* mongoose.Types.ObjectId.isValid(id): the model's ids are positive integers
isValidId(id) == id >= 1

\* Joi.string().trim().uppercase().pattern(/^[A-Z_]+$/) on a code
codePattern(code) ==
  LET c == toUpperCase(trim(code)) IN
    Len(c) >= 1 /\ \A i \in 1..Len(c) : c[i] \in SeqToSet(UpperChars) \cup {"_"}

\* createRoleSchema.validate / updateRoleSchema.validate: the first field of the
\* body that is rejected, "" when the body passes; required says whether name,
\* code and permissions must be there (createRoleSchema)
roleSchemaError(body, required) ==
  IF "name" \notin DOMAIN body /\ required THEN "name"
  ELSE IF "name" \in DOMAIN body /\ Len(trim(body.name)) \notin 2..50 THEN "name"
  ELSE IF "code" \notin DOMAIN body /\ required THEN "code"
  ELSE IF "code" \in DOMAIN body /\ ~codePattern(body.code) THEN "code"
  ELSE IF "permissions" \notin DOMAIN body /\ required THEN "permissions"
  ELSE IF "permissions" \in DOMAIN body
          /\ \/ required /\ Len(body.permissions) < 1
             \/ \E k \in 1..Len(body.permissions) : trim(body.permissions[k]) = <<>>
  THEN "permissions"
  ELSE ""

validationFailed(field) == errorResponse("Validation failed", [field |-> field], 400)

\* createRole(req, res): the collection afterwards and the response
createRole(rs, body) ==
  LET name == trim(body.name)
      code == trim(toUpperCase(body.code))
      Taken(r) == r.name = name \/ r.code = code
      existing == SelectIdx(rs, Taken, 1)
  IN IF roleSchemaError(body, TRUE) # ""
     THEN [roles |-> rs, response |-> validationFailed(roleSchemaError(body, TRUE))]
     ELSE IF existing # <<>>
     THEN [roles |-> rs,
           response |-> errorResponse(IF rs[existing[1]].name = name
                                      THEN "Role with this name already exists"
                                      ELSE "Role with this code already exists", Null, 409)]
     ELSE LET newRole == RoleDoc(name, savedCode(code),
                                 savedPermissions([k \in 1..Len(body.permissions) |->
                                                     trim(toUpperCase(body.permissions[k]))]),
                                 IF "active" \in DOMAIN body THEN body.active ELSE TRUE)
          IN [roles |-> Append(rs, newRole),
              response |-> successResponse("Role created successfully", newRole, 201)]

\* updateRole(req, res)
updateRole(rs, id, body) ==
  IF ~isValidId(id) THEN [roles |-> rs, response |-> errorResponse("Invalid role ID", Null, 400)]
  ELSE IF id > Len(rs) THEN [roles |-> rs, response |-> errorResponse("Role not found", Null, 404)]
  ELSE IF roleSchemaError(body, FALSE) # ""
  THEN [roles |-> rs, response |-> validationFailed(roleSchemaError(body, FALSE))]
  ELSE IF "name" \in DOMAIN body /\ trim(body.name) # rs[id].name /\ roleWithName(rs, trim(body.name))
  THEN [roles |-> rs, response |-> errorResponse("Role with this name already exists", Null, 409)]
  ELSE IF "code" \in DOMAIN body /\ trim(toUpperCase(body.code)) # rs[id].code
          /\ roleWithCode(rs, trim(toUpperCase(body.code)))
  THEN [roles |-> rs, response |-> errorResponse("Role with this code already exists", Null, 409)]
  ELSE LET role ==
             [name |-> IF "name" \in DOMAIN body THEN trim(body.name) ELSE rs[id].name,
              code |-> IF "code" \in DOMAIN body
                       THEN savedCode(trim(toUpperCase(body.code))) ELSE rs[id].code,
              permissions |-> IF "permissions" \in DOMAIN body
                              THEN savedPermissions([k \in 1..Len(body.permissions) |->
                                                       trim(toUpperCase(body.permissions[k]))])
                              ELSE rs[id].permissions,
              active |-> IF "active" \in DOMAIN body THEN body.active ELSE rs[id].active]
       IN [roles |-> [rs EXCEPT ![id] = role],
           response |-> successResponse("Role updated successfully", role, 200)]

\* deleteRole(req, res)
deleteRole(rs, id) ==
  IF ~isValidId(id) THEN [roles |-> rs, response |-> errorResponse("Invalid role ID", Null, 400)]
  ELSE IF id > Len(rs) THEN [roles |-> rs, response |-> errorResponse("Role not found", Null, 404)]
  ELSE IF ~rs[id].active
  THEN [roles |-> rs, response |-> errorResponse("Role is already deleted", Null, 400)]
  ELSE [roles |-> [rs EXCEPT ![id].active = FALSE],
        response |-> successResponse("Role deleted successfully", Null, 200)]

----------------------------------------------------------------------------
(* controllers/user.controller.ts; the bodies are those the Joi schemas accept *)

\* the role _ids a roles list of a body resolves to, or a 400
resolveRoles(rs, listed) ==
  LET foundRoles == findActiveRoleIds(rs, [k \in 1..Len(listed) |-> toUpperCase(listed[k])])
  IN IF Len(foundRoles) # Len(listed)
     THEN Throw(errorResponse("One or more invalid role codes provided", Null, 400))
     ELSE Return(foundRoles)

\* what a handler answers about a user
userData(rs, id, user) == [id |-> id, roles |-> roleCodesOf(rs, user.roles), active |-> user.active]

\* createUser(req, res) without a file
createUser(us, rs, body, t) ==
  IF findUserByEmail(us, trim(toLowerCase(body.email))) # 0
  THEN [users |-> us, response |-> errorResponse("User with this email already exists", Null, 409)]
  ELSE LET roleIds == IF "roles" \in DOMAIN body /\ Len(body.roles) > 0
                      THEN resolveRoles(rs, body.roles)
                      ELSE Return(defaultUserRoleIds(rs))
       IN IF ~roleIds.ok THEN [users |-> us, response |-> roleIds.error]
          ELSE LET newUser == UserDoc(trim(toLowerCase(body.email)), Hash(body.password),
                                      roleIds.value,
                                      IF "active" \in DOMAIN body THEN body.active ELSE TRUE, t)
               IN [users |-> Append(us, newUser),
                   response |-> successResponse("User created successfully",
                                                userData(rs, Len(us) + 1, newUser), 201)]

\* an updateUser that saves the e-mail and the active flag before it looks at the roles
updateUserPartial(us, rs, id, body, t) ==
  IF ~isValidId(id) THEN [users |-> us, response |-> errorResponse("Invalid user ID", Null, 400)]
  ELSE IF id > Len(us) THEN [users |-> us, response |-> errorResponse("User not found", Null, 404)]
  ELSE IF "email" \in DOMAIN body /\ trim(toLowerCase(body.email)) # us[id].email
          /\ findUserByEmail(us, trim(toLowerCase(body.email))) # 0
  THEN [users |-> us, response |-> errorResponse("User with this email already exists", Null, 409)]
  ELSE LET roleIds == IF "roles" \notin DOMAIN body THEN Return(us[id].roles)
                      ELSE IF Len(body.roles) > 0 THEN resolveRoles(rs, body.roles)
                      ELSE Return(defaultUserRoleIds(rs))
           user == [email |-> IF "email" \in DOMAIN body
                              THEN trim(toLowerCase(body.email)) ELSE us[id].email,
                    password |-> IF "password" \in DOMAIN body
                                 THEN Hash(body.password) ELSE us[id].password,
                    roles |-> IF roleIds.ok THEN roleIds.value ELSE us[id].roles,
                    active |-> IF "active" \in DOMAIN body THEN body.active ELSE us[id].active,
                    createdAt |-> us[id].createdAt, updatedAt |-> us[id].updatedAt]
       IN IF ~roleIds.ok
          THEN [users |-> [us EXCEPT ![id] = save(us[id], user, t)], response |-> roleIds.error]
          ELSE [users |-> [us EXCEPT ![id] = save(us[id], user, t)],
                response |-> successResponse("User updated successfully", userData(rs, id, user), 200)]

\* updateUser(req, res) without a file
updateUser(us, rs, id, body, t) ==
  IF ~isValidId(id) THEN [users |-> us, response |-> errorResponse("Invalid user ID", Null, 400)]
  ELSE IF id > Len(us) THEN [users |-> us, response |-> errorResponse("User not found", Null, 404)]
  ELSE IF "email" \in DOMAIN body /\ trim(toLowerCase(body.email)) # us[id].email
          /\ findUserByEmail(us, trim(toLowerCase(body.email))) # 0
  THEN [users |-> us, response |-> errorResponse("User with this email already exists", Null, 409)]
  ELSE LET roleIds == IF "roles" \notin DOMAIN body THEN Return(us[id].roles)
                      ELSE IF Len(body.roles) > 0 THEN resolveRoles(rs, body.roles)
                      ELSE Return(defaultUserRoleIds(rs))
       IN IF ~roleIds.ok THEN [users |-> us, response |-> roleIds.error]
          ELSE LET user == [email |-> IF "email" \in DOMAIN body
                                      THEN trim(toLowerCase(body.email)) ELSE us[id].email,
                            password |-> IF "password" \in DOMAIN body
                                         THEN Hash(body.password) ELSE us[id].password,
                            roles |-> roleIds.value,
                            active |-> IF "active" \in DOMAIN body THEN body.active ELSE us[id].active,
                            createdAt |-> us[id].createdAt, updatedAt |-> us[id].updatedAt]
               IN [users |-> [us EXCEPT ![id] = save(us[id], user, t)],
                   response |-> successResponse("User updated successfully", userData(rs, id, user), 200)]

\* a deleteUser that removes the document from the collection
deleteUserRemove(us, id, t) ==
  IF ~isValidId(id) THEN [users |-> us, response |-> errorResponse("Invalid user ID", Null, 400)]
  ELSE IF id > Len(us) THEN [users |-> us, response |-> errorResponse("User not found", Null, 404)]
  ELSE IF ~us[id].active
  THEN [users |-> us, response |-> errorResponse("User is already deleted", Null, 400)]
  ELSE [users |-> [k \in 1..(Len(us) - 1) |-> IF k < id THEN us[k] ELSE us[k + 1]],
        response |-> successResponse("User deleted successfully", Null, 200)]

\* deleteUser(req, res)
deleteUser(us, id, t) ==
  IF ~isValidId(id) THEN [users |-> us, response |-> errorResponse("Invalid user ID", Null, 400)]
  ELSE IF id > Len(us) THEN [users |-> us, response |-> errorResponse("User not found", Null, 404)]
  ELSE IF ~us[id].active
  THEN [users |-> us, response |-> errorResponse("User is already deleted", Null, 400)]
  ELSE [users |-> [us EXCEPT ![id] = save(us[id], [us[id] EXCEPT !.active = FALSE], t)],
        response |-> successResponse("User deleted successfully", Null, 200)]

\* getUserById(req, res)
getUserById(us, rs, id) ==
  IF ~isValidId(id) THEN [users |-> us, response |-> errorResponse("Invalid user ID", Null, 400)]
  ELSE IF id > Len(us) THEN [users |-> us, response |-> errorResponse("User not found", Null, 404)]
  ELSE [users |-> us,
        response |-> successResponse("User retrieved successfully", userData(rs, id, us[id]), 200)]

\* getAllUsers(req, res): the page holds the documents' _ids
getAllUsers(us) ==
  [users |-> us,
   response |-> successResponse("Users retrieved successfully", [ids |-> [k \in 1..Len(us) |-> k]], 200)]

\* getMyProfile(req, res)
getMyProfile(us, rs, reqUser) ==
  IF Falsy(reqUser, "user_id")
  THEN [users |-> us, response |-> errorResponse("User ID not found in token", Null, 401)]
  ELSE LET id == findById(us, reqUser.user_id) IN
    IF id = 0 THEN [users |-> us, response |-> errorResponse("User not found", Null, 404)]
    ELSE [users |-> us,
          response |-> successResponse("Profile retrieved successfully", userData(rs, id, us[id]), 200)]

\* an updateMyProfile that takes the active flag of the body
updateMyProfileActive(us, rs, reqUser, body, t) ==
  IF Falsy(reqUser, "user_id")
  THEN [users |-> us, response |-> errorResponse("User ID not found in token", Null, 401)]
  ELSE LET id == findById(us, reqUser.user_id) IN
    IF id = 0 THEN [users |-> us, response |-> errorResponse("User not found", Null, 404)]
    ELSE IF "email" \in DOMAIN body /\ trim(toLowerCase(body.email)) # us[id].email
            /\ findUserByEmail(us, trim(toLowerCase(body.email))) # 0
    THEN [users |-> us, response |-> errorResponse("User with this email already exists", Null, 409)]
    ELSE LET user == [us[id] EXCEPT
                        !.email = IF "email" \in DOMAIN body
                                  THEN trim(toLowerCase(body.email)) ELSE @,
                        !.password = IF "password" \in DOMAIN body THEN Hash(body.password) ELSE @,
                        !.active = IF "active" \in DOMAIN body THEN body.active ELSE @]
         IN [users |-> [us EXCEPT ![id] = save(us[id], user, t)],
             response |-> successResponse("Profile updated successfully", userData(rs, id, user), 200)]

\* updateMyProfile(req, res) without a file: roles and active of the body are dropped
updateMyProfile(us, rs, reqUser, body, t) ==
  IF Falsy(reqUser, "user_id")
  THEN [users |-> us, response |-> errorResponse("User ID not found in token", Null, 401)]
  ELSE LET id == findById(us, reqUser.user_id) IN
    IF id = 0 THEN [users |-> us, response |-> errorResponse("User not found", Null, 404)]
    ELSE IF "email" \in DOMAIN body /\ trim(toLowerCase(body.email)) # us[id].email
            /\ findUserByEmail(us, trim(toLowerCase(body.email))) # 0
    THEN [users |-> us, response |-> errorResponse("User with this email already exists", Null, 409)]
    ELSE LET user == [us[id] EXCEPT
                        !.email = IF "email" \in DOMAIN body
                                  THEN trim(toLowerCase(body.email)) ELSE @,
                        !.password = IF "password" \in DOMAIN body THEN Hash(body.password) ELSE @]
         IN [users |-> [us EXCEPT ![id] = save(us[id], user, t)],
             response |-> successResponse("Profile updated successfully", userData(rs, id, user), 200)]

----------------------------------------------------------------------------
(* middlewares/permission.middleware.ts, the upload middleware and the handlers *)

\* a string of characters as one string: the ${...} of a template literal
RECURSIVE Str(_)
Str(s) == IF s = <<>> THEN "" ELSE Head(s) \o Str(Tail(s))

\* a JSON string value in a response
Text(string) == [string |-> string]

\* requirePermission without the return in front of its 403: next is called as well
AfterHasPermissionNoReturn(r, hasAccess, lookup, wasRevoked) ==
  LET check == [called |-> TRUE, permission |-> r.route.permission, lookup |-> lookup,
                result |-> hasAccess, revoked |-> wasRevoked]
      denied == IF hasAccess THEN <<>>
                ELSE <<errorResponse("Access denied", [requiredPermission |-> r.route.permission], 403)>>
  IN [r EXCEPT !.pc = IF r.route.upload THEN "upload" ELSE "handler",
               !.check = check,
               !.sent = r.sent \o denied,
               !.trace = r.trace \o <<"hasPermission", "next">>]

\* requirePermission after hasPermission has returned hasAccess; hasPermission
\* never throws, so the catch block (500 'Permission check failed') is not entered
AfterHasPermission(r, hasAccess, lookup, wasRevoked) ==
  LET check == [called |-> TRUE, permission |-> r.route.permission, lookup |-> lookup,
                result |-> hasAccess, revoked |-> wasRevoked]
  IN IF ~hasAccess
     THEN [r EXCEPT !.pc = "done",
                    !.check = check,
                    !.sent = r.sent \o <<errorResponse("Access denied. Required permission: "
                                                         \o Str(r.route.permission),
                                                       [requiredPermission |-> r.route.permission],
                                                       403)>>,
                    !.trace = r.trace \o <<"hasPermission">>]
     ELSE [r EXCEPT !.pc = IF r.route.upload THEN "upload" ELSE "handler",
                    !.check = check,
                    !.trace = r.trace \o <<"hasPermission", "next">>]

\* whether a deactivation has taken this permission from these role codes and no
\* active role among them grants it at present
WasRevoked(codes, permission) ==
  /\ [role |-> codes, permission |-> permission] \in revoked
  /\ ~Grants(roles, codes, permission)

\* requirePermission whose hasPermission queries the roles of every identity
BeforeLookupAlways(r) ==
  LET entered == [r EXCEPT !.trace = r.trace \o <<"requirePermission">>] IN
    IF ~r.user.set
    THEN [entered EXCEPT !.pc = "done",
                         !.sent = r.sent \o <<errorResponse("Authentication required", Null, 401)>>]
    ELSE [entered EXCEPT !.pc = "lookup"]

\* requirePermission(permission)(req, res, next) up to the await inside hasPermission
BeforeLookup(r) ==
  LET entered == [r EXCEPT !.trace = r.trace \o <<"requirePermission">>] IN
    IF ~r.user.set
    THEN [entered EXCEPT !.pc = "done",
                         !.sent = r.sent \o <<errorResponse("Authentication required", Null, 401)>>]
    ELSE IF ~MakesLookup(r.user.value)
    THEN AfterHasPermission(entered, hasPermission(r.user.value, r.route.permission, Return(<<>>)),
                            "none", FALSE)
    ELSE [entered EXCEPT !.pc = "lookup"]

\* express runs the route's requirePermission on the request
RequirePermission(i) ==
  /\ reqs[i].pc = "requirePermission"
  /\ reqs' = [reqs EXCEPT ![i] = BeforeLookup(reqs[i])]
  /\ UNCHANGED <<env, now, payload, pair, vcall, roles, users, issued, hpcall, call, revoked, proc>>

\* a Role.find that is issued again when it failed
LookupRetry(i) ==
  /\ reqs[i].pc = "lookup"
  /\ \E lookup \in LookupOutcomes(roles, reqs[i].user.value.role) :
       reqs' = [reqs EXCEPT ![i] =
                  IF lookup.ok
                  THEN AfterHasPermission(reqs[i],
                                          hasPermission(reqs[i].user.value, reqs[i].route.permission, lookup),
                                          "ok", FALSE)
                  ELSE [reqs[i] EXCEPT !.trace = @ \o <<"retry">>]]
  /\ UNCHANGED <<env, now, payload, pair, vcall, roles, users, issued, hpcall, call, revoked, proc>>

\* the Role.find of hasPermission completes and requirePermission decides
Lookup(i) ==
  /\ reqs[i].pc = "lookup"
  /\ \E lookup \in LookupOutcomes(roles, reqs[i].user.value.role) :
       reqs' = [reqs EXCEPT ![i] =
                  AfterHasPermission(reqs[i],
                                     hasPermission(reqs[i].user.value, reqs[i].route.permission, lookup),
                                     IF lookup.ok THEN "ok" ELSE "failed",
                                     WasRevoked(reqs[i].user.value.role, reqs[i].route.permission))]
  /\ UNCHANGED <<env, now, payload, pair, vcall, roles, users, issued, hpcall, call, revoked, proc>>

\* imageUploadMiddleware: multer accepts the body, or passes an error to
\* errorHandler, which answers 500
Upload(i) ==
  /\ reqs[i].pc = "upload"
  /\ \/ reqs' = [reqs EXCEPT ![i].pc = "handler",
                             ![i].trace = @ \o <<"upload", "next">>]
     \/ reqs' = [reqs EXCEPT ![i].pc = "done",
                             ![i].trace = @ \o <<"upload", "errorHandler">>,
                             ![i].sent = @ \o <<errorResponse("Validation Error",
                                                              Text("Only image files are allowed!"), 500)>>]
  /\ UNCHANGED <<env, now, payload, pair, vcall, roles, users, issued, hpcall, call, revoked, proc>>

----------------------------------------------------------------------------
(* Bounds and inputs of the specification of the whole service *)

NewPassword == "User@12345"

\* the e-mail of the user clients create, as they type it
NewEmail == <<"U", "2", "@", "x", ".", "i", "o">>

\* the code and name of the role clients create, as they type them
NewRoleCode == <<"t", "e", "a", "m">>
NewRoleName == <<" ", "T", "e", "a", "m", " ">>

CreateUserBodies ==
  {[email |-> NewEmail, password |-> NewPassword],
   [email |-> NewEmail, password |-> NewPassword, roles |-> <<ADMIN, NewRoleCode>>]}

UpdateUserBodies == {[roles |-> <<>>], [roles |-> <<USER>>]}

UpdateMyProfileBodies ==
  {[roles |-> <<ADMIN>>, active |-> FALSE], [email |-> toUpperCase(adminConfig.email)]}

\* the body that creates the role
TeamRoleBody ==
  [name |-> NewRoleName, code |-> NewRoleCode,
   permissions |-> <<toLowerCase(USER_CREATE), Padded(USER_READ)>>]

CreateRoleBodies ==
  {TeamRoleBody,
   [name |-> NewRoleName, code |-> USER, permissions |-> <<USER_READ>>]}

UpdateRoleBodies == {[active |-> FALSE], [active |-> TRUE]}

Passwords == {adminConfig.password, NewPassword}

\* the Authorization headers clients send: none, or Bearer and an access token of a login
AccessTokens ==
  {issued[u].response.body.data.tokens.access_token : u \in {v \in 1..Len(issued) : issued[v].called}}

ClientHeaders ==
  {[host |-> "api"]}
  \cup {[host |-> "api", authorization |-> <<Bearer, SP>> \o token] : token \in AccessTokens}

\* the handler's answer when the database rejects its write or query
dbFailure(message) == errorResponse(message, PlainError("MongoNetworkError"), 500)

\* the outcomes of the route's handler on the request: users afterwards and response
HandlerOutcomes(r) ==
  LET ids == 1..(Len(users) + 1)
      h == r.route.handler
  IN CASE h = "getAllUsers" -> {getAllUsers(users)}
       [] h = "getUserById" -> {getUserById(users, roles, id) : id \in ids}
       [] h = "getMyProfile" -> {getMyProfile(users, roles, r.user.value)}
       [] h = "updateMyProfile" ->
            {updateMyProfile(users, roles, r.user.value, body, now) : body \in UpdateMyProfileBodies}
       [] h = "createUser" ->
            {createUser(users, roles, body, now) : body \in CreateUserBodies}
            \cup {[users |-> users, response |-> dbFailure("Failed to create user")]}
       [] h = "updateUser" ->
            {updateUser(users, roles, id, body, now) : id \in ids, body \in UpdateUserBodies}
       [] h = "deleteUser" -> {deleteUser(users, id, now) : id \in ids}

\* the route's handler runs and answers
Handler(i) ==
  /\ reqs[i].pc = "handler"
  /\ \E out \in HandlerOutcomes(reqs[i]) :
       /\ users' = out.users
       /\ issued' = issued \o [k \in 1..(Len(out.users) - Len(users)) |-> NotCalled]
       /\ reqs' = [reqs EXCEPT ![i].pc = "done",
                               ![i].sent = @ \o <<out.response>>,
                               ![i].trace = @ \o <<"handler">>]
  /\ UNCHANGED <<env, now, payload, pair, vcall, roles, hpcall, call, revoked, proc>>

\* a request for a route of R that authenticate, requirePermission and the upload
\* middleware let pass and whose handler writes to the users collection, taken in
\* one step: nothing happens in between and neither the database nor the upload fails
UserRequest(R) ==
  /\ \E route \in R, headers \in ClientHeaders :
       \E r1 \in {AfterAuthenticate(NewRequest(route, headers), env, now)} :
         /\ r1.pc = "requirePermission"
         /\ \E r2 \in {BeforeLookup(r1)} :
              /\ r2.pc = "lookup"
              /\ \E found \in {findActiveRolesByCode(roles, r2.user.value.role)} :
                   /\ hasPermission(r2.user.value, route.permission, Return(found))
                   /\ \E out \in HandlerOutcomes(r2) :
                        /\ users' = out.users
                        /\ users' # users
                        /\ issued' = issued \o [k \in 1..(Len(out.users) - Len(users)) |-> NotCalled]
  /\ UNCHANGED <<env, now, payload, pair, vcall, roles, reqs, hpcall, call, revoked, proc>>

\* POST /api/auth/login; issued keeps, per user, the last login that answered 200
Login ==
  \E u \in 1..Len(users), password \in Passwords :
    \E out \in {login(users, roles, toUpperCase(users[u].email), password, env, now)} :
      /\ out.response.status = 200
      /\ issued' = [issued EXCEPT ![u] = [called |-> TRUE, payload |-> out.payload,
                                          response |-> out.response]]
      /\ UNCHANGED <<env, now, payload, pair, vcall, roles, users, reqs, hpcall, call, revoked, proc>>

\* the identities of the tokens in clients' hands
IssuedIdentities == {issued[u].payload : u \in {v \in 1..Len(issued) : issued[v].called}}

RoutePermissions == {route.permission : route \in UserRoutes}

\* whether hasPermission grants the permission to the role codes on the collection rs
Allowed(rs, codes, permission) ==
  hasPermission([role |-> codes], permission, Return(findActiveRolesByCode(rs, codes)))

\* the role id is the only active role of rs among the codes that grants p
OnlyGranter(rs, id, codes, p) ==
  /\ Grants(rs, codes, p)
  /\ rs[id].active
  /\ ~Grants([rs EXCEPT ![id].active = FALSE], codes, p)

\* the <<role codes, permission>> pairs of issued identities from which the step
\* from rs to rs2 takes the permission by deactivating its only granter
Revocations(rs, rs2) ==
  LET off == {id \in 1..Len(rs) : rs[id].active /\ ~rs2[id].active} IN
    IF off = {} THEN {}
    ELSE {x \in {[role |-> ident.role, permission |-> p] :
                   ident \in IssuedIdentities, p \in RoutePermissions} :
            \E id \in off : OnlyGranter(rs, id, x.role, x.permission)}

\* the role handlers, called with a body and an id
CreateRole ==
  /\ \E body \in CreateRoleBodies :
       roles' = createRole(roles, body).roles
  /\ roles' # roles
  /\ UNCHANGED <<env, now, payload, pair, vcall, users, issued, reqs, hpcall, call, revoked, proc>>

\* history says whether the step's revocations are recorded in revoked
UpdateRole(history) ==
  \E id \in 1..Len(roles), body \in UpdateRoleBodies :
    /\ roles' = updateRole(roles, id, body).roles
    /\ roles' # roles
    /\ revoked' = IF history THEN revoked \cup Revocations(roles, roles') ELSE revoked
    /\ UNCHANGED <<env, now, payload, pair, vcall, users, issued, reqs, hpcall, call, proc>>

DeleteRole(history) ==
  \E id \in 1..Len(roles) :
    /\ roles' = deleteRole(roles, id).roles
    /\ roles' # roles
    /\ revoked' = IF history THEN revoked \cup Revocations(roles, roles') ELSE revoked
    /\ UNCHANGED <<env, now, payload, pair, vcall, users, issued, reqs, hpcall, call, proc>>

----------------------------------------------------------------------------
(* Specification of the codec: generateToken, verifyToken and              *)
(* verifyRefreshToken applied to bounded inputs under every configuration  *)

CodecRoleLists == {<<>>, <<USER>>, <<ADMIN, USER>>, <<USER, ADMIN>>}

\* JwtPayload objects, also ill-formed ones: email is optional, role may be undefined
CodecPayloads ==
  {[user_id |-> u, email |-> "a@x.io", role |-> r] : u \in {"", "u1"}, r \in CodecRoleLists}
  \cup {[user_id |-> u, role |-> r] : u \in {"", "u1"}, r \in CodecRoleLists}
  \cup {[user_id |-> u, email |-> "a@x.io"] : u \in {"", "u1"}}

InitCodec ==
  /\ env \in Envs
  /\ now = 0
  /\ payload \in CodecPayloads
  /\ pair = NotCalled
  /\ vcall = NotCalled
  /\ roles = <<>> /\ users = <<>> /\ issued = <<>> /\ reqs = <<>>
  /\ hpcall = NotCalled /\ call = NotCalled /\ proc = NoProcess /\ revoked = {}

CodecFrame == UNCHANGED <<env, payload, roles, users, issued, reqs, hpcall, call, revoked, proc>>

\* time passes
Tick ==
  /\ now < MaxTime
  /\ now' = now + 1
  /\ UNCHANGED <<env, payload, pair, vcall, roles, users, issued, reqs, hpcall, call, revoked, proc>>

\* generateToken(payload)
Issue ==
  /\ ~pair.called
  /\ pair' = [called |-> TRUE, at |-> now, result |-> generateToken(payload, env, now)]
  /\ UNCHANGED <<now, vcall>>
  /\ CodecFrame

\* the token strings generateToken has returned
PairTokens ==
  IF pair.called /\ pair.result.ok
  THEN {pair.result.value.access_token, pair.result.value.refresh_token}
  ELSE {}

\* verifyToken(token) on a token of the pair
CallVerifyToken ==
  \E token \in PairTokens :
    /\ vcall' = [called |-> TRUE, fn |-> "verifyToken", token |-> token, at |-> now,
                 result |-> verifyToken(token, env, now)]
    /\ UNCHANGED <<now, pair>>
    /\ CodecFrame

\* verifyRefreshToken(token) on a token of the pair
CallVerifyRefreshToken ==
  \E token \in PairTokens :
    /\ vcall' = [called |-> TRUE, fn |-> "verifyRefreshToken", token |-> token, at |-> now,
                 result |-> verifyRefreshToken(token, env, now)]
    /\ UNCHANGED <<now, pair>>
    /\ CodecFrame

NextCodec == Tick \/ Issue \/ CallVerifyToken \/ CallVerifyRefreshToken

SpecCodec == InitCodec /\ [][NextCodec]_vars

----------------------------------------------------------------------------
(* Claims about the codec *)

Failed(r, code) == ~r.ok /\ r.error.class = "JwtError" /\ r.error.code = code

VerifiedAccess == vcall.called /\ vcall.fn = "verifyToken"
VerifiedRefresh == vcall.called /\ vcall.fn = "verifyRefreshToken"
OnAccessToken == pair.called /\ pair.result.ok /\ vcall.token = pair.result.value.access_token
OnRefreshToken == pair.called /\ pair.result.ok /\ vcall.token = pair.result.value.refresh_token
Expired == vcall.at >= vcall.token[1].body.exp

\* every setting is configured, the two lifetimes with a timespan
ValidEnv(e) == AllConfigured(e) /\ ms(e.ACCESS_EXPIRES_IN) # -1 /\ ms(e.REFRESH_EXPIRES_IN) # -1

\* C4: generateToken fails with INVALID_PAYLOAD, and returns no token pair, whenever
\* the payload's role list is empty, also when user_id is non-empty and all four
\* settings are configured (the case stated here).
C4_EmptyRolesRejected ==
  (/\ pair.called
   /\ "role" \in DOMAIN payload /\ payload.role = <<>>
   /\ payload.user_id # "" /\ ValidEnv(env))
    => Failed(pair.result, "INVALID_PAYLOAD")

\* C6: verifyToken on a correctly signed access token whose expiry has passed fails
\* with TOKEN_EXPIRED, and verifyRefreshToken on an expired refresh token fails with
\* REFRESH_TOKEN_EXPIRED.
C6_ExpiredKind ==
  /\ (VerifiedAccess /\ OnAccessToken /\ Expired) => Failed(vcall.result, "TOKEN_EXPIRED")
  /\ (VerifiedRefresh /\ OnRefreshToken /\ Expired) => Failed(vcall.result, "REFRESH_TOKEN_EXPIRED")

\* C7: for a payload with a non-empty user_id and at least one role code, verifyToken
\* of the access token generateToken made, called before the expiry, returns exactly
\* the payload: same user_id, email and role codes in order, and no other field.
C7_RoundTrip ==
  (VerifiedAccess /\ OnAccessToken /\ ~Expired /\ payload.role # <<>>)
    => (vcall.result.ok /\ vcall.result.value = payload)

C7_Witness ==
  /\ VerifiedAccess /\ OnAccessToken /\ ~Expired
  /\ payload = [user_id |-> "u1", email |-> "a@x.io", role |-> <<ADMIN, USER>>]
  /\ vcall.result.ok
  /\ vcall.at > pair.at

\* C8: verifyToken rejects every refresh token of generateToken with INVALID_TOKEN and
\* verifyRefreshToken rejects every access token with INVALID_REFRESH_TOKEN, also when
\* both secrets are the same value.
C8_TypeIsolation ==
  /\ (VerifiedAccess /\ OnRefreshToken) => Failed(vcall.result, "INVALID_TOKEN")
  /\ (VerifiedRefresh /\ OnAccessToken) => Failed(vcall.result, "INVALID_REFRESH_TOKEN")

C8_Witness ==
  /\ VerifiedAccess /\ OnRefreshToken
  /\ env.JWT_SECRET = env.JWT_REFRESH_SECRET
  /\ ~Expired
  /\ Failed(vcall.result, "INVALID_TOKEN")

----------------------------------------------------------------------------
(* Specification of the resolver: hasPermission applied to bounded          *)
(* identities and permissions over bounded contents of the roles collection *)

MaxStoredRoles == 2     \* documents in the collection of this specification

\* permission lists as a collection may hold them: documents are also written by
\* other means than Role.save, so entries are not always normalised
StoredPermissionLists ==
  {<<>>, <<USER_READ>>, <<USER_DELETE>>, <<USER_READ, USER_DELETE>>,
   <<toLowerCase(USER_READ)>>, <<Padded(USER_DELETE)>>}

StoredRoles(code) ==
  {RoleDoc(code, code, ps, a) : ps \in StoredPermissionLists, a \in BOOLEAN}

\* collections of at most MaxStoredRoles documents with distinct codes (unique index)
RoleStores ==
  UNION {{rs \in [1..n -> StoredRoles(ADMIN) \cup StoredRoles(USER)] :
            \A i, j \in 1..n : i # j => rs[i].code # rs[j].code} : n \in 0..MaxStoredRoles}

PermIdentities ==
  {[user_id |-> "u1", role |-> r] : r \in {<<>>, <<USER>>, <<ADMIN>>, <<ADMIN, USER>>, <<toLowerCase(USER)>>}}

AskedPermissions == {USER_READ, toLowerCase(USER_READ), Padded(USER_READ), USER_DELETE}

InitPerm ==
  /\ roles \in RoleStores
  /\ hpcall = NotCalled /\ call = NotCalled /\ proc = NoProcess
  /\ env = [JWT_SECRET |-> "k1", JWT_REFRESH_SECRET |-> "k2",
            ACCESS_EXPIRES_IN |-> Span(1), REFRESH_EXPIRES_IN |-> Span(1)]
  /\ now = 0 /\ payload = [user_id |-> "u1", role |-> <<USER>>]
  /\ pair = NotCalled /\ vcall = NotCalled
  /\ users = <<>> /\ issued = <<>> /\ reqs = <<>> /\ revoked = {}

\* one call of hasPermission; lookup is "none" when the call returned before the query
HasPermissionCall(user, permission, lookup) ==
  [called |-> TRUE, user |-> user, permission |-> permission,
   lookup |-> IF ~MakesLookup(user) THEN "none" ELSE IF lookup.ok THEN "ok" ELSE "failed",
   result |-> hasPermission(user, permission, lookup)]

\* hasPermission(user, permission) called on the current collection
CallHasPermission ==
  \E user \in PermIdentities, permission \in AskedPermissions :
    \E lookup \in LookupOutcomes(roles, user.role) :
      /\ hpcall' = HasPermissionCall(user, permission, lookup)
      /\ UNCHANGED <<env, now, payload, pair, vcall, roles, users, issued, reqs, call, revoked, proc>>

NextPerm == CallHasPermission

SpecPerm == InitPerm /\ [][NextPerm]_vars

\* the case-normalised form of a permission
\* C2: hasPermission(identity, P) is true if and only if P, case-normalised, equals
\* the case-normalised form of a permission of an active role whose code is one of
\* the identity's role codes; stated of every call whose query returned the
\* collection's documents.
C2_HasPermissionIff ==
  (hpcall.called /\ hpcall.lookup # "failed")
    => (hpcall.result <=> Grants(roles, hpcall.user.role, hpcall.permission))

C2_Witness ==
  /\ hpcall.called /\ hpcall.lookup = "ok" /\ hpcall.result
  /\ hpcall.permission = toLowerCase(USER_READ)
  /\ hpcall.user.role = <<ADMIN, USER>>
  /\ Len(roles) = 2
  /\ \E i \in 1..2 : ~roles[i].active /\ USER_READ \in SeqToSet(roles[i].permissions)
  /\ \E i \in 1..2 : roles[i].active /\ roles[i].permissions = <<USER_READ, USER_DELETE>>

\* C13: hasPermission never raises; a call whose role lookup failed completes with
\* the result false, and never with true.
C13_FailedLookupDenies ==
  (hpcall.called /\ hpcall.lookup = "failed")
    => (hpcall.result \in BOOLEAN /\ hpcall.result = FALSE)

C13_Witness ==
  /\ hpcall.called /\ hpcall.lookup = "failed"
  /\ hpcall.result = FALSE
  /\ Grants(roles, hpcall.user.role, hpcall.permission)

----------------------------------------------------------------------------
(* Specification of the authentication gate: authenticate applied to every  *)
(* shape of Authorization header, with tokens of generateToken and others   *)

\* the configuration under which the presented tokens were issued
IssuerEnv ==
  [JWT_SECRET |-> "k1", JWT_REFRESH_SECRET |-> "k2",
   ACCESS_EXPIRES_IN |-> Span(1), REFRESH_EXPIRES_IN |-> Span(MaxExpiry)]

\* the configuration of the verifying process: the issuer's, one without
\* JWT_SECRET, one with another JWT_SECRET
GateEnvs ==
  {IssuerEnv, [IssuerEnv EXCEPT !.JWT_SECRET = Unset], [IssuerEnv EXCEPT !.JWT_SECRET = "k2"]}

GatePayload == [user_id |-> "u1", email |-> "a@x.io", role |-> <<USER>>]

\* a token signed by someone who does not have the secret
Forged(token) == <<[token[1] EXCEPT !.sig = Hmac(token[1].alg, "guess", token[1].body)]>>

\* a token another service signed with the same secret over a payload without roles
Unscoped ==
  jwtSign([user_id |-> "u1"], IssuerEnv.JWT_SECRET, IssuerEnv.ACCESS_EXPIRES_IN, "HS512", 0).value

GateTokens ==
  LET issuedPair == generateToken(GatePayload, IssuerEnv, 0).value
  IN {issuedPair.access_token, issuedPair.refresh_token, Forged(issuedPair.access_token),
      Unscoped, <<Word("abc")>>}

\* the lexemes headers are made of
GateLexemes == {SP, Bearer, Word("bearer"), Word("Token")} \cup {t[1] : t \in GateTokens}

\* header strings: every string of at most three lexemes, and longer ones with
\* additional spaces and segments
GateHeaderStrings ==
  UNION {[1..n -> GateLexemes] : n \in 0..3}
  \cup {<<Bearer, SP>> \o t \o <<SP>> : t \in GateTokens}
  \cup {<<Bearer, SP>> \o t \o <<SP, Word("abc")>> : t \in GateTokens}
  \cup {<<Bearer, SP, SP>> \o t : t \in GateTokens}
  \cup {<<SP, Bearer, SP>> \o t : t \in GateTokens}

GateHeaders ==
  {[host |-> "api"]} \cup {[host |-> "api", authorization |-> h] : h \in GateHeaderStrings}

InitGate ==
  /\ env \in GateEnvs
  /\ now = 0
  /\ reqs = <<Idle>>
  /\ roles = <<>> /\ users = <<>> /\ issued = <<>>
  /\ payload = GatePayload /\ pair = NotCalled /\ vcall = NotCalled
  /\ hpcall = NotCalled /\ call = NotCalled /\ proc = NoProcess /\ revoked = {}

NextGate == Tick \/ Receive(1, UserRoutes, GateHeaders) \/ Authenticate(1)

SpecGate == InitGate /\ [][NextGate]_vars

\* the request of this specification, once authenticate has handled it
Handled == reqs[1].pc \notin {"idle", "authenticate"}

MalformedResponse ==
  errorResponse("Invalid authorization header format. Use: Bearer <token>", Null, 401)

\* C9: every failure of verifyToken inside authenticate ends in exactly one 401
\* response with success = false whose error detail carries the code of the error
\* verifyToken threw; req.user stays unset and next is not called.
C9_VerifyFailureIs401 ==
  (Handled /\ reqs[1].verify.called /\ ~reqs[1].verify.result.ok)
    => /\ Len(reqs[1].sent) = 1
       /\ reqs[1].sent[1].status = 401
       /\ reqs[1].sent[1].body.success = FALSE
       /\ reqs[1].sent[1].body.error = [code |-> reqs[1].verify.result.error.code]
       /\ reqs[1].user = NoUser
       /\ reqs[1].pc = "done"
       /\ "next" \notin SeqToSet(reqs[1].trace)

C9_Witness ==
  /\ Handled /\ reqs[1].verify.called
  /\ Failed(reqs[1].verify.result, "INVALID_TOKEN")
  /\ reqs[1].verify.result.error.message = "Invalid token: invalid signature"
  /\ reqs[1].sent[1].body.error = [code |-> "INVALID_TOKEN"]

\* the header is exactly 'Bearer', one space and a non-empty token without spaces
WellShaped(h) ==
  /\ Len(h) >= 3
  /\ h[1] = Bearer /\ h[2] = SP
  /\ \A k \in 3..Len(h) : h[k] # SP

\* C10: every present Authorization header that is not exactly 'Bearer', one space
\* and a non-empty token is answered with the malformed-credentials 401, and
\* verifyToken is not called: wrong scheme, missing token (also 'Bearer' and a
\* space and nothing), extra segments.
C10_MalformedHeader ==
  (Handled /\ "authorization" \in DOMAIN reqs[1].headers
           /\ reqs[1].headers.authorization # <<>>
           /\ ~WellShaped(reqs[1].headers.authorization))
    => /\ reqs[1].sent = <<MalformedResponse>>
       /\ ~reqs[1].verify.called

\* the scheme of a header: what stands in front of its first space
SchemeOf(h) ==
  LET spaces == {k \in 1..Len(h) : h[k] = SP}
  IN IF spaces = {} THEN h
     ELSE SubSeq(h, 1, (CHOOSE k \in spaces : \A m \in spaces : k <= m) - 1)

MissingHeaderResponse == errorResponse("Authorization header is required", Null, 401)

\* authenticate has rejected the request without touching it otherwise
RejectedUntouched ==
  /\ reqs[1].pc = "done"
  /\ reqs[1].user = NoUser
  /\ ~reqs[1].verify.called
  /\ "next" \notin SeqToSet(reqs[1].trace)

\* C11: a request without an Authorization header is answered 401 with the
\* header-is-required message, a request whose header has another scheme than
\* Bearer is answered 401 with a different message; in both cases req.user stays
\* unset and neither verifyToken nor next is called.
C11_MissingAndWrongScheme ==
  /\ (Handled /\ "authorization" \notin DOMAIN reqs[1].headers)
       => (reqs[1].sent = <<MissingHeaderResponse>> /\ RejectedUntouched)
  /\ (Handled /\ "authorization" \in DOMAIN reqs[1].headers
              /\ reqs[1].headers.authorization # <<>>
              /\ SchemeOf(reqs[1].headers.authorization) # <<Bearer>>)
       => /\ Len(reqs[1].sent) = 1
          /\ reqs[1].sent[1].status = 401
          /\ reqs[1].sent[1].body.message # MissingHeaderResponse.body.message
          /\ RejectedUntouched

C11_Witness ==
  /\ Handled
  /\ "authorization" \in DOMAIN reqs[1].headers
  /\ reqs[1].headers.authorization = <<Word("Token"), SP, Word("abc")>>
  /\ reqs[1].sent = <<MalformedResponse>>

----------------------------------------------------------------------------
(* Specification of the whole service, from the seeded database *)

ServiceEnv ==
  [JWT_SECRET |-> "k1", JWT_REFRESH_SECRET |-> "k2",
   ACCESS_EXPIRES_IN |-> Span(1), REFRESH_EXPIRES_IN |-> Span(1)]

\* the collections after `npm run seed`: seedRoles, then seedAdmin
\* seedRoles() from default role k on, with the database reachable: a default role
\* whose code is stored is skipped, the others are created; the save of a role
\* whose name is stored under another code is rejected by the unique index on
\* name, and seedRoles rethrows the error
RECURSIVE seedRolesFrom(_, _)
seedRolesFrom(rs, k) ==
  IF k > Len(defaultRoles) THEN [roles |-> rs, result |-> Return(Undefined)]
  ELSE IF roleWithCode(rs, defaultRoles[k].code) THEN seedRolesFrom(rs, k + 1)
  ELSE IF roleWithName(rs, trim(defaultRoles[k].name))
  THEN [roles |-> rs, result |-> Throw(PlainError("MongoServerError"))]
  ELSE seedRolesFrom(Append(rs, RoleDoc(trim(defaultRoles[k].name), savedCode(defaultRoles[k].code),
                                        savedPermissions(defaultRoles[k].permissions), TRUE)),
                     k + 1)

seedRoles(rs) == seedRolesFrom(rs, 1)

\* getRoleByCode(code): Role.findOne({ code: code.toUpperCase(), active: true }),
\* the _id of the first match, 0 when there is none
getRoleByCode(rs, code) ==
  LET ids == findActiveRoleIds(rs, <<toUpperCase(code)>>) IN IF ids = <<>> THEN 0 ELSE ids[1]

\* the rest of seedAdmin() once the active ADMIN role adminRole is known
seedAdminUser(us, rs, adminRole, t) ==
  IF findUserByEmail(us, adminConfig.email) # 0
  THEN [users |-> us, roles |-> rs, result |-> Return(Undefined)]
  ELSE [users |-> Append(us, UserDoc(adminConfig.email, Hash(adminConfig.password),
                                     <<adminRole>>, TRUE, t)),
        roles |-> rs, result |-> Return(Undefined)]

\* seedAdmin() at t with the database reachable: the collections afterwards and
\* whether it returned or threw
seedAdmin(us, rs, t) ==
  IF getRoleByCode(rs, ADMIN) # 0 THEN seedAdminUser(us, rs, getRoleByCode(rs, ADMIN), t)
  ELSE LET seeded == seedRoles(rs) IN
    IF ~seeded.result.ok THEN [users |-> us, roles |-> seeded.roles, result |-> seeded.result]
    ELSE IF getRoleByCode(seeded.roles, ADMIN) = 0
    THEN [users |-> us, roles |-> seeded.roles, result |-> Throw(PlainError("Error"))]
    ELSE seedAdminUser(us, seeded.roles, getRoleByCode(seeded.roles, ADMIN), t)

SeededRoles ==
  [k \in 1..Len(defaultRoles) |->
     RoleDoc(defaultRoles[k].name, savedCode(defaultRoles[k].code),
             savedPermissions(defaultRoles[k].permissions), TRUE)]

SeededUsers ==
  <<UserDoc(adminConfig.email, Hash(adminConfig.password), findActiveRoleIds(SeededRoles, <<ADMIN>>), TRUE, 0)>>

Init ==
  /\ env = ServiceEnv
  /\ now = 0
  /\ roles = SeededRoles
  /\ users = SeededUsers
  /\ issued = <<NotCalled>>
  /\ reqs = <<Idle>>
  /\ revoked = {}
  /\ payload = GatePayload /\ pair = NotCalled /\ vcall = NotCalled /\ hpcall = NotCalled /\ call = NotCalled /\ proc = NoProcess

\* the routes whose handlers write the roles of a user
WriteRoutes == {route \in UserRoutes : route.handler \in {"createUser", "updateUser"}}

Next ==
  \/ Login
  \/ CreateRole
  \/ UpdateRole(FALSE)
  \/ DeleteRole(FALSE)
  \/ UserRequest(WriteRoutes)

Spec == Init /\ [][Next]_vars

\* C5: every token pair login has returned was signed over a payload with a
\* non-empty user_id and at least one role code.
C5_IssuedFromFullIdentity ==
  \A u \in 1..Len(issued) :
    issued[u].called =>
      /\ issued[u].payload.user_id # ""
      /\ Len(issued[u].payload.role) >= 1

----------------------------------------------------------------------------
(* Specification of requests under /api/users: one request at a time goes through
   the middlewares of its route, on the seeded collections and a second user who
   has the default role, while the clock runs *)

\* a login that answered 200, as issued keeps it
Issued(us, rs, email, password, e, t) ==
  LET out == login(us, rs, email, password, e, t) IN
    [called |-> TRUE, payload |-> out.payload, response |-> out.response]

\* the e-mail of a user created while the USER role was switched off
OtherEmail == <<"u", "3", "@", "x", ".", "i", "o">>

\* the seeded admin, a user with the default role, and a user created without roles
\* while no active USER role existed, who therefore has none
RequestUsers ==
  createUser(createUser(SeededUsers, deleteRole(SeededRoles, 3).roles,
                        [email |-> OtherEmail, password |-> NewPassword], 0).users,
             SeededRoles, [email |-> NewEmail, password |-> NewPassword], 0).users

RequestLogins ==
  <<Issued(RequestUsers, SeededRoles, adminConfig.email, adminConfig.password, ServiceEnv, 0),
    Issued(RequestUsers, SeededRoles, OtherEmail, NewPassword, ServiceEnv, 0),
    Issued(RequestUsers, SeededRoles, NewEmail, NewPassword, ServiceEnv, 0)>>

\* the headers clients send: those of ClientHeaders, a refresh token as Bearer
\* token, a forged token, a token that is no JWT, and a header without the scheme
RequestHeaders ==
  LET tokens == RequestLogins[1].response.body.data.tokens IN
    ClientHeaders
    \cup {[host |-> "api", authorization |-> <<Bearer, SP>> \o tokens.refresh_token],
          [host |-> "api", authorization |-> <<Bearer, SP>> \o Forged(tokens.access_token)],
          [host |-> "api", authorization |-> <<Bearer, SP, Word("abc")>>],
          [host |-> "api", authorization |-> <<Word("Token")>>]}

InitRequest ==
  /\ env = ServiceEnv
  /\ now = 0
  /\ roles = SeededRoles
  /\ users = RequestUsers
  /\ issued = RequestLogins
  /\ reqs = <<Idle>>
  /\ revoked = {}
  /\ payload = GatePayload /\ pair = NotCalled /\ vcall = NotCalled /\ hpcall = NotCalled /\ call = NotCalled /\ proc = NoProcess

NextRequest ==
  \/ Tick
  \/ Receive(1, UserRoutes, RequestHeaders)
  \/ Authenticate(1)
  \/ RequirePermission(1)
  \/ Lookup(1)
  \/ Upload(1)
  \/ Handler(1)
  \/ Close(1)

SpecRequest == InitRequest /\ [][NextRequest]_vars

\* what the middlewares of a route record, in order, when both let the request pass
PassedGates ==
  <<"authenticate", "verifyToken", "next", "requirePermission", "hasPermission", "next">>

\* the request's handler is running or has run
AtHandler(r) == r.pc = "handler" \/ "handler" \in SeqToSet(r.trace)

\* authenticate or requirePermission has answered the request
GateAnswered(r) ==
  /\ r.sent # <<>>
  /\ r.trace[Len(r.trace)] \in {"authenticate", "verifyToken", "requirePermission", "hasPermission"}

\* C1: the handler of a route under /api/users runs only after authenticate has
\* attached the identity of a successfully verified access token and, after that,
\* requirePermission's check of the route's permission has returned true; a request
\* a gate has answered is finished with that one response and no later middleware
\* or handler has run.
C1_HandlerBehindGates ==
  LET r == reqs[1] IN
    r.pc # "idle" =>
      /\ AtHandler(r) =>
           /\ r.verify.called /\ r.verify.result.ok
           /\ r.user.set /\ r.user.value = r.verify.result.value
           /\ r.check.called /\ r.check.result
           /\ r.check.permission = r.route.permission
           /\ SubSeq(r.trace, 1, Len(PassedGates)) = PassedGates
      /\ GateAnswered(r) =>
           /\ r.pc = "done"
           /\ Len(r.sent) = 1
           /\ r.sent[1].status \in {401, 403, 500}
      /\ Len(r.sent) <= 1
      /\ (r.sent # <<>>) => r.pc = "done"

C1_Witness ==
  /\ reqs[1].pc = "done"
  /\ "handler" \in SeqToSet(reqs[1].trace)
  /\ reqs[1].route.upload
  /\ reqs[1].sent[1].status = 200

\* the role lookup of the request's permission check failed
LookupFailed(r) == r.pc # "idle" /\ r.check.called /\ r.check.lookup = "failed"

\* C12: when the role lookup fails while requirePermission handles an authenticated
\* request, the request is answered with 500, not with 403 and not by calling next,
\* and the handler is not run.
C12_LookupFailureIs500 ==
  LookupFailed(reqs[1]) =>
    /\ Len(reqs[1].sent) = 1
    /\ reqs[1].sent[1].status = 500
    /\ "handler" \notin SeqToSet(reqs[1].trace)
    /\ reqs[1].pc = "done"

\* requirePermission has decided on a request whose identity's active roles do not
\* grant the permission of its route
NotGranted(r) ==
  /\ r.pc \notin {"idle", "authenticate", "requirePermission", "lookup"}
  /\ r.user.set
  /\ ~Grants(roles, r.user.value.role, r.route.permission)

\* C14: a request with a valid, unexpired access token whose identity's active roles
\* do not grant the route's permission gets exactly one 403 whose message and error
\* detail name that permission, and the handler is not run; for an identity with an
\* empty role list no role lookup is made.
C14_DeniedWith403 ==
  LET r == reqs[1] IN
    NotGranted(r) =>
      /\ r.pc = "done"
      /\ r.sent = <<errorResponse("Access denied. Required permission: " \o Str(r.route.permission),
                                 [requiredPermission |-> r.route.permission], 403)>>
      /\ "handler" \notin SeqToSet(r.trace)
      /\ (r.user.value.role = <<>>) => (r.check.lookup = "none")

C14_Witness ==
  /\ NotGranted(reqs[1])
  /\ reqs[1].user.value.role = <<>>
  /\ reqs[1].check.lookup = "none"
  /\ reqs[1].sent[1].status = 403

\* the error field of a response body is absent, null, or a detail a gate builds
StructuredDetail(body) ==
  \/ "error" \notin DOMAIN body
  \/ body.error = Null
  \/ DOMAIN body.error = {"code"}
  \/ DOMAIN body.error = {"requiredPermission"}

\* C16: no response sent by authenticate or requirePermission contains a caught
\* error object: the error field of every rejection body is absent, null, {code}
\* or {requiredPermission}.
C16_NoRawErrorInResponse ==
  LET r == reqs[1] IN
    (r.pc # "idle" /\ GateAnswered(r)) =>
      \A k \in 1..Len(r.sent) : ~r.sent[k].body.success /\ StructuredDetail(r.sent[k].body)

C16_Witness ==
  /\ reqs[1].pc = "done"
  /\ GateAnswered(reqs[1])
  /\ reqs[1].verify.called
  /\ Failed(reqs[1].verify.result, "INVALID_TOKEN")
  /\ reqs[1].verify.result.error.message = "Invalid token: invalid signature"
  /\ reqs[1].sent[1].body.error = [code |-> "INVALID_TOKEN"]

----------------------------------------------------------------------------
(* Specification of role changes under traffic: the seeded collections with one
   more role and a second user who holds ADMIN and that role; roles are switched
   off and on while users log in and read through /api/users *)

TeamRoles == createRole(SeededRoles, TeamRoleBody).roles

TeamUsers ==
  createUser(SeededUsers, TeamRoles,
             [email |-> NewEmail, password |-> NewPassword, roles |-> <<ADMIN, NewRoleCode>>], 0).users

ReadRoutes == {route \in UserRoutes : route.handler \in {"getAllUsers", "getMyProfile"}}

InitRoles ==
  /\ env = ServiceEnv
  /\ now = 0
  /\ roles = TeamRoles
  /\ users = TeamUsers
  /\ issued = <<NotCalled, NotCalled>>
  /\ reqs = <<Idle>>
  /\ revoked = {}
  /\ payload = GatePayload /\ pair = NotCalled /\ vcall = NotCalled /\ hpcall = NotCalled /\ call = NotCalled /\ proc = NoProcess

NextRoles ==
  \/ Login
  \/ UpdateRole(TRUE)
  \/ DeleteRole(TRUE)
  \/ Receive(1, ReadRoutes, ClientHeaders)
  \/ Authenticate(1)
  \/ RequirePermission(1)
  \/ Lookup(1)
  \/ Handler(1)
  \/ Close(1)

SpecRoles == InitRoles /\ [][NextRoles]_vars

\* C3 as stated: once the only active role granting P to an identity's role codes
\* has been deactivated, every later hasPermission(identity, P) returns false.
C3_DeniedEverAfter ==
  \A x \in revoked : ~Allowed(roles, x.role, x.permission)

\* the request of this specification whose permission check found its permission
\* taken away and not granted again
RevokedCheck ==
  /\ reqs[1].pc = "done"
  /\ reqs[1].check.called
  /\ reqs[1].check.revoked

\* C3, amended: after the deactivation of the only active role granting P to an
\* identity's role codes, hasPermission(identity, P) returns false and
\* requirePermission(P) answers 403 to a request with the un-reissued token, from
\* the next call on and for as long as no active role among the codes grants P.
C3_DeniedWhileNotGranted ==
  /\ \A x \in revoked :
       ~Grants(roles, x.role, x.permission) => ~Allowed(roles, x.role, x.permission)
  /\ RevokedCheck =>
       /\ ~reqs[1].check.result
       /\ Len(reqs[1].sent) = 1
       /\ reqs[1].sent[1].status = 403
       /\ "handler" \notin SeqToSet(reqs[1].trace)

C3_Witness ==
  /\ RevokedCheck
  /\ reqs[1].check.lookup = "ok"
  /\ reqs[1].sent[1].status = 403
  /\ \E u \in 1..Len(issued) :
       /\ issued[u].called
       /\ issued[u].payload = reqs[1].user.value
       /\ Len(issued[u].payload.role) > 1

----------------------------------------------------------------------------
(* Specification of the start of the server (server.ts): the process starts with
   some configuration, startServer connects to the database and listens, and
   requests arrive once it listens *)

\* the process has not called app.listen yet
Down == [pc |-> "down"]

\* the process has exited with code 1
Exited == [pc |-> "exited"]

\* the configurations the process may be started with: the complete one, and those
\* in which one of the four settings is missing
StartEnvs ==
  {ServiceEnv}
  \cup {[ServiceEnv EXCEPT ![k] = Unset] :
          k \in {"JWT_SECRET", "JWT_REFRESH_SECRET", "ACCESS_EXPIRES_IN", "REFRESH_EXPIRES_IN"}}

\* startServer(): connectDB() resolves and app.listen is called, or connectDB()
\* rejects and the process exits; no setting of the codec is read
startServer(i) ==
  /\ reqs[i] = Down
  /\ reqs' \in {[reqs EXCEPT ![i] = Idle], [reqs EXCEPT ![i] = Exited]}
  /\ UNCHANGED <<env, now, payload, pair, vcall, roles, users, issued, hpcall, call, revoked, proc>>

\* the headers of the clients of the starting server
StartHeaders ==
  {[host |-> "api"], [host |-> "api", authorization |-> <<Bearer, SP, Word("abc")>>]}
  \cup {[host |-> "api", authorization |-> <<Bearer, SP>> \o t] : t \in GateTokens}

InitStart ==
  /\ env \in StartEnvs
  /\ now = 0
  /\ roles = SeededRoles
  /\ users = SeededUsers
  /\ issued = <<NotCalled>>
  /\ reqs = <<Down>>
  /\ revoked = {}
  /\ payload = GatePayload /\ pair = NotCalled /\ vcall = NotCalled /\ hpcall = NotCalled /\ call = NotCalled /\ proc = NoProcess

NextStart ==
  \/ startServer(1)
  \/ Receive(1, UserRoutes, StartHeaders)
  \/ Authenticate(1)
  \/ Close(1)

SpecStart == InitStart /\ [][NextStart]_vars

\* the server listens
Serving == reqs[1].pc \notin {"down", "exited"}

\* the codes of the errors the codec throws when a setting is missing
MissingSettingCodes == {"MISSING_SECRET", "MISSING_REFRESH_SECRET", "MISSING_EXPIRATION"}

\* the request was answered with an error that names a missing setting
AnsweredMissingSetting(r) ==
  /\ r.pc = "done"
  /\ \E k \in 1..Len(r.sent) :
       /\ "error" \in DOMAIN r.sent[k].body
       /\ "code" \in DOMAIN r.sent[k].body.error
       /\ r.sent[k].body.error.code \in MissingSettingCodes

----------------------------------------------------------------------------
(* Specification of two requests handled at the same time: both go through the
   middlewares of read routes in any interleaving, while roles are switched off
   and on *)

InitConcurrent ==
  /\ env = ServiceEnv
  /\ now = 0
  /\ roles = SeededRoles
  /\ users = RequestUsers
  /\ issued = RequestLogins
  /\ reqs = <<Idle, Idle>>
  /\ revoked = {}
  /\ payload = GatePayload /\ pair = NotCalled /\ vcall = NotCalled /\ hpcall = NotCalled /\ call = NotCalled /\ proc = NoProcess

NextConcurrent ==
  \/ UpdateRole(FALSE)
  \/ DeleteRole(FALSE)
  \/ \E i \in DOMAIN reqs : Receive(i, ReadRoutes, ClientHeaders)
  \/ \E i \in DOMAIN reqs : Authenticate(i)
  \/ \E i \in DOMAIN reqs : RequirePermission(i)
  \/ \E i \in DOMAIN reqs : Lookup(i)
  \/ \E i \in DOMAIN reqs : Handler(i)
  \/ \E i \in DOMAIN reqs : Close(i)

SpecConcurrent == InitConcurrent /\ [][NextConcurrent]_vars

\* what a step may do to request i, r before and q after it
LookupDiscipline(i, r, q) ==
  /\ (q.pc = "lookup" /\ q # r) =>
       \* a lookup is started by requirePermission only, for an identity with a role
       \* code, and nothing is sent and next is not called when it starts
       /\ r.pc = "requirePermission"
       /\ r.user.set /\ Len(r.user.value.role) >= 1
       /\ q.sent = <<>> /\ ~q.check.called
       /\ q.trace = r.trace \o <<"requirePermission">>
  /\ (r.pc = "requirePermission" /\ q # r /\ r.user.set /\ Len(r.user.value.role) >= 1) =>
       q.pc = "lookup"
  /\ (r.pc = "lookup" /\ q # r) =>
       \* the lookup completes once, failed or not, and the decision follows from
       \* the request's own identity and route and the roles at that moment
       /\ q.pc \in {"done", "handler"}
       /\ q.check.called /\ q.check.lookup \in {"ok", "failed"}
       /\ q.check.result = (q.check.lookup = "ok" /\ Grants(roles, r.user.value.role, r.route.permission))
       /\ q.check.result => (q.pc = "handler" /\ q.sent = <<>>)
       /\ ~q.check.result => (q.pc = "done" /\ Len(q.sent) = 1 /\ q.sent[1].status = 403)
       /\ \A j \in DOMAIN reqs \ {i} : reqs'[j] = reqs[j]
  /\ (q.pc = "requirePermission" /\ q # r) => r.pc = "authenticate"

\* C17: for each request that reaches requirePermission with an identity holding a
\* role code exactly one role lookup is started; requirePermission neither calls
\* next nor sends a response before the lookup has completed, a failed lookup is
\* not retried, and this holds in every interleaving of two requests, whose
\* decisions do not influence one another.
C17_OneLookupPerRequest ==
  [][\A i \in DOMAIN reqs : LookupDiscipline(i, reqs[i], reqs'[i])]_vars

C17_Witness ==
  /\ reqs[1].pc = "lookup"
  /\ reqs[2].pc = "done"
  /\ reqs[2].check.called /\ reqs[2].check.lookup = "failed"
  /\ reqs[1].user = reqs[2].user
  /\ reqs[1].route = reqs[2].route

----------------------------------------------------------------------------
(* Specification of the app: requests for the user and the role endpoints arrive
   at the express app, which passes them to the router mounted on their prefix *)

\* router.<method>(path, requirePermission(permission), handler) of the role router
RoleRoutes ==
  {Route("GET", "/", ROLE_READ, FALSE, "getAllRoles"),
   Route("GET", "/:id", ROLE_READ, FALSE, "getRoleById"),
   Route("POST", "/", ROLE_CREATE, FALSE, "createRole"),
   Route("PUT", "/:id", ROLE_UPDATE, FALSE, "updateRole"),
   Route("DELETE", "/:id", ROLE_DELETE, FALSE, "deleteRole")}

\* app.use(prefix, authenticate, router): the routers the app mounts behind the gate
Mounts == {[prefix |-> "/api/users", router |-> UserRoutes]}

\* errorResponse(res, `Route ${req.originalUrl} not found`, undefined, 404)
notFoundHandler(originalUrl) ==
  errorResponse(<<"Route ", originalUrl, " not found">>, Undefined, 404)

\* the app passes the request to the router mounted on its prefix, and to
\* notFoundHandler when no router is
app(prefix, route, headers) ==
  IF \E m \in Mounts : m.prefix = prefix /\ route \in m.router
  THEN NewRequest(route, headers)
  ELSE [NewRequest(route, headers) EXCEPT
          !.pc = "done",
          !.sent = <<notFoundHandler(<<prefix, route.path>>)>>,
          !.trace = <<"notFoundHandler">>]

\* the endpoints clients ask for
Endpoints ==
  {[prefix |-> "/api/users", route |-> route] : route \in UserRoutes}
  \cup {[prefix |-> "/api/roles", route |-> route] : route \in RoleRoutes}

\* a request for an endpoint arrives at the app
ReceiveApp(i) ==
  /\ reqs[i].pc = "idle"
  /\ \E e \in Endpoints, headers \in RequestHeaders :
       reqs' = [reqs EXCEPT ![i] = app(e.prefix, e.route, headers)]
  /\ UNCHANGED <<env, now, payload, pair, vcall, roles, users, issued, hpcall, call, revoked, proc>>

InitApp ==
  /\ env = ServiceEnv
  /\ now = 0
  /\ roles = SeededRoles
  /\ users = RequestUsers
  /\ issued = RequestLogins
  /\ reqs = <<Idle>>
  /\ revoked = {}
  /\ payload = GatePayload /\ pair = NotCalled /\ vcall = NotCalled /\ hpcall = NotCalled /\ call = NotCalled /\ proc = NoProcess

NextApp ==
  \/ ReceiveApp(1)
  \/ Authenticate(1)
  \/ RequirePermission(1)
  \/ Lookup(1)
  \/ Handler(1)
  \/ Close(1)

SpecApp == InitApp /\ [][NextApp]_vars

\* the answered request carried the access token issued to the login k
SentToken(r, k) ==
  /\ issued[k].called
  /\ r.headers = [host |-> "api",
                  authorization |-> <<Bearer, SP>> \o issued[k].response.body.data.tokens.access_token]

\* C18: an answered request to a role endpoint that carried a valid access token
\* has reached the endpoint's role handler when the token's active roles grant
\* the endpoint's permission, and was answered 403 when they do not.
C18_RoleEndpointsServed ==
  LET r == reqs[1] IN
    (r.pc = "done" /\ r.route \in RoleRoutes) =>
      \A k \in 1..Len(issued) :
        SentToken(r, k) =>
          IF Grants(roles, issued[k].payload.role, r.route.permission)
          THEN r.trace[Len(r.trace)] = "handler"
          ELSE r.sent[Len(r.sent)].status = 403

----------------------------------------------------------------------------
(* Specification of deleteUser: the handler is called again and again, with any
   id, on a users collection some of whose users are already inactive, while the
   clock advances *)

\* the users collection with the users of the set off deactivated
Deactivated(us, off) == [k \in 1..Len(us) |-> [us[k] EXCEPT !.active = (k \notin off)]]

UserStores == {Deactivated(RequestUsers, off) : off \in SUBSET (1..Len(RequestUsers))}

InitUsers ==
  /\ env = ServiceEnv
  /\ now = 0
  /\ roles = SeededRoles
  /\ users \in UserStores
  /\ issued = <<>>
  /\ reqs = <<Idle>>
  /\ revoked = {}
  /\ payload = GatePayload /\ pair = NotCalled /\ vcall = NotCalled /\ hpcall = NotCalled /\ call = NotCalled /\ proc = NoProcess

\* deleteUser is called with req.params.id = id; id 0 is an id that is no ObjectId
CallDeleteUser ==
  /\ \E id \in 0..(Len(users) + 1) :
       \E out \in {deleteUser(users, id, now)} :
         /\ users' = out.users
         /\ call' = [called |-> TRUE, id |-> id, at |-> now, before |-> users,
                     response |-> out.response]
  /\ UNCHANGED <<env, now, payload, pair, vcall, roles, issued, reqs, hpcall, revoked, proc>>

NextUsers == Tick \/ CallDeleteUser

SpecUsers == InitUsers /\ [][NextUsers]_vars

\* the last deleteUser call was made for a stored user
OnStoredUser == call.called /\ call.id \in 1..Len(call.before)

AlreadyDeleted == errorResponse("User is already deleted", Null, 400)

\* the documents without the fields a soft delete writes
Kept(us) == [k \in 1..Len(us) |-> [us[k] EXCEPT !.active = TRUE, !.updatedAt = 0]]

\* C19 as stated: deleteUser on an active user sets active to false and leaves
\* every other field of the record as it was; on an inactive user it answers 400
\* 'User is already deleted' and leaves the store unchanged; after any sequence of
\* calls the records are those of the start.
C19_SoftDeleteOnlyActive ==
  /\ Len(users) = Len(RequestUsers)
  /\ OnStoredUser =>
       IF call.before[call.id].active
       THEN /\ users = [call.before EXCEPT ![call.id].active = FALSE]
            /\ call.response.status = 200
       ELSE /\ users = call.before
            /\ call.response = AlreadyDeleted

\* C19 amended: deleteUser on an active user sets active to false and updatedAt to
\* the time of the save and leaves every other field of the record as it was; on
\* an inactive user it answers 400 'User is already deleted' and leaves the store
\* unchanged; after any sequence of calls the collection holds the same records,
\* which differ from the start in active and updatedAt only.
C19_SoftDeleteKeepsRecord ==
  /\ Kept(users) = Kept(RequestUsers)
  /\ OnStoredUser =>
       IF call.before[call.id].active
       THEN /\ users = [call.before EXCEPT ![call.id].active = FALSE,
                                           ![call.id].updatedAt = call.at]
            /\ call.response.status = 200
       ELSE /\ users = call.before
            /\ call.response = AlreadyDeleted

C19_Witness ==
  /\ OnStoredUser
  /\ call.before[call.id].active
  /\ call.at > call.before[call.id].updatedAt
  /\ \E k \in 1..Len(call.before) : ~call.before[k].active /\ call.before[k].updatedAt > 0
  /\ ~users[call.id].active /\ users[call.id].updatedAt = call.at
  /\ call.response.status = 200

----------------------------------------------------------------------------
(* Specification of the roles seeder: seedRoles runs again and again on role
   stores that the role controller has written before and writes in between *)

\* role stores the role controller and the seeder leave behind
SeedStores ==
  {<<>>,
   SeededRoles,
   SubSeq(SeededRoles, 1, 1),
   SubSeq(SeededRoles, 2, 3),
   createRole(<<>>, TeamRoleBody).roles,
   createRole(<<>>, [name |-> NewRoleName, code |-> USER, permissions |-> <<USER_READ>>]).roles,
   updateRole(SeededRoles, 1, [code |-> NewRoleCode]).roles,
   updateRole(SeededRoles, 3, [code |-> NewRoleCode]).roles}

InitSeed ==
  /\ env = ServiceEnv
  /\ now = 0
  /\ roles \in SeedStores
  /\ users = <<>>
  /\ issued = <<>>
  /\ reqs = <<Idle>>
  /\ revoked = {}
  /\ payload = GatePayload /\ pair = NotCalled /\ vcall = NotCalled /\ hpcall = NotCalled /\ call = NotCalled /\ proc = NoProcess

\* npm run seed: seedRoles runs on the collection
SeedRoles ==
  /\ \E out \in {seedRoles(roles)} :
       /\ roles' = out.roles
       /\ call' = [called |-> TRUE, before |-> roles, result |-> out.result]
  /\ UNCHANGED <<env, now, payload, pair, vcall, users, issued, reqs, hpcall, revoked, proc>>

\* what the role controller is asked to change between two runs
SeedUpdateBodies == UpdateRoleBodies \cup {[code |-> NewRoleCode], [name |-> NewRoleName]}

\* the role controller updates a role; the run before is forgotten
WriteRole ==
  /\ \E id \in 1..Len(roles), body \in SeedUpdateBodies :
       roles' = updateRole(roles, id, body).roles
  /\ roles' # roles
  /\ call' = NotCalled
  /\ UNCHANGED <<env, now, payload, pair, vcall, users, issued, reqs, hpcall, revoked, proc>>

NextSeed == SeedRoles \/ WriteRole

SpecSeed == InitSeed /\ [][NextSeed]_vars

DefaultCodes == {savedCode(defaultRoles[k].code) : k \in 1..Len(defaultRoles)}

WithCode(rs, code) == {i \in 1..Len(rs) : rs[i].code = code}

\* C20: after a run of seedRoles, from any role store, there is exactly one role
\* for each of the codes ADMIN, SUB_ADMIN and USER; the roles stored before are
\* all as they were, the roles added are those of the codes that were missing,
\* and another run changes nothing.
C20_SeedCompleteIdempotent ==
  call.called =>
    /\ \A code \in DefaultCodes : Cardinality(WithCode(roles, code)) = 1
    /\ Len(roles) >= Len(call.before)
    /\ SubSeq(roles, 1, Len(call.before)) = call.before
    /\ \A i \in (Len(call.before) + 1)..Len(roles) :
         roles[i].code \in DefaultCodes /\ WithCode(call.before, roles[i].code) = {}
    /\ seedRoles(roles).roles = roles

----------------------------------------------------------------------------
(* Specification of the admin seeder: seedAdmin runs again and again on user and
   role stores that the controllers have written before and write in between *)

\* user stores the user controller and the seeder leave behind
AdminStores ==
  {<<>>,
   SeededUsers,
   RequestUsers,
   updateUser(SeededUsers, SeededRoles, 1, [roles |-> <<USER>>], 0).users,
   deleteUser(SeededUsers, 1, 0).users,
   createUser(<<>>, SeededRoles, [email |-> NewEmail, password |-> NewPassword], 0).users}

InitAdmin ==
  /\ env = ServiceEnv
  /\ now = 0
  /\ \/ roles = <<>> /\ users = <<>>
     \/ roles = SeededRoles /\ users \in AdminStores
  /\ issued = <<>>
  /\ reqs = <<Idle>>
  /\ revoked = {}
  /\ payload = GatePayload /\ pair = NotCalled /\ vcall = NotCalled /\ hpcall = NotCalled /\ call = NotCalled /\ proc = NoProcess

\* npm run seed: seedAdmin runs on the collections
SeedAdmin ==
  /\ \E out \in {seedAdmin(users, roles, now)} :
       /\ users' = out.users
       /\ roles' = out.roles
       /\ call' = [called |-> TRUE, before |-> users, result |-> out.result]
  /\ UNCHANGED <<env, now, payload, pair, vcall, issued, reqs, hpcall, revoked, proc>>

\* the user controller updates or deletes a user; the run before is forgotten
WriteUser ==
  /\ \E id \in 1..Len(users) :
       \/ \E body \in UpdateUserBodies : users' = updateUser(users, roles, id, body, now).users
       \/ users' = deleteUser(users, id, now).users
  /\ users' # users
  /\ call' = NotCalled
  /\ UNCHANGED <<env, now, payload, pair, vcall, roles, issued, reqs, hpcall, revoked, proc>>

NextAdmin == SeedAdmin \/ WriteUser \/ WriteRole

SpecAdmin == InitAdmin /\ [][NextAdmin]_vars

Admins(us) == {u \in 1..Len(us) : us[u].email = adminConfig.email}

HoldsActiveAdminRole(user, rs) ==
  \E id \in SeqToSet(user.roles) : id <= Len(rs) /\ rs[id].active /\ rs[id].code = ADMIN

\* C21: after a run of seedAdmin that completed without error, from any user and
\* role store, exactly one user has the e-mail admin@example.com, that user holds
\* the active ADMIN role, and the run added no user when one had that e-mail.
C21_AdminSeeded ==
  (call.called /\ call.result.ok) =>
    /\ Cardinality(Admins(users)) = 1
    /\ \A u \in Admins(users) : HoldsActiveAdminRole(users[u], roles)
    /\ Admins(call.before) # {} => users = call.before

----------------------------------------------------------------------------
(* Specification of the roles collection: createRole, updateRole, deleteRole and
   seedRoles are called in any order, with bodies that pass and bodies that fail
   the validation *)

\* codes clients send: a new one in lower case, the same with blanks around it,
\* a stored one in lower case, one with a digit, one with a dash, an empty one
RoleCodeInputs ==
  {NewRoleCode, Padded(NewRoleCode), toLowerCase(USER), <<"t","1">>, <<"a","-","b">>, <<" ">>}

RolePermissionInputs ==
  {<<USER_READ, toLowerCase(USER_CREATE), Padded(toLowerCase(USER_READ)), USER_READ>>,
   <<>>,
   <<<<" ">>>>}

RoleStoreCreateBodies ==
  {[name |-> NewRoleName, code |-> code, permissions |-> <<USER_READ>>] : code \in RoleCodeInputs}
  \cup {[name |-> code, code |-> code, permissions |-> permissions] :
          code \in {NewRoleCode}, permissions \in RolePermissionInputs}

RoleStoreUpdateBodies ==
  {[code |-> code] : code \in RoleCodeInputs}
  \cup {[permissions |-> permissions] : permissions \in RolePermissionInputs}
  \cup {[active |-> TRUE]}

InitRoleStore ==
  /\ env = ServiceEnv
  /\ now = 0
  /\ roles \in {<<>>, SeededRoles}
  /\ users = <<>>
  /\ issued = <<>>
  /\ reqs = <<Idle>>
  /\ revoked = {}
  /\ payload = GatePayload /\ pair = NotCalled /\ vcall = NotCalled /\ hpcall = NotCalled /\ call = NotCalled /\ proc = NoProcess

\* what a call of a role handler that answered out leaves behind
RoleCalled(out) == [called |-> TRUE, status |-> out.response.status]

CallCreateRole ==
  /\ \E body \in RoleStoreCreateBodies :
       \E out \in {createRole(roles, body)} :
         roles' = out.roles /\ call' = RoleCalled(out)
  /\ UNCHANGED <<env, now, payload, pair, vcall, users, issued, reqs, hpcall, revoked, proc>>

\* the ids clients send: the oldest and the newest role
RoleStoreIds == {1, Len(roles)} \ {0}

CallUpdateRole ==
  /\ \E id \in RoleStoreIds, body \in RoleStoreUpdateBodies :
       \E out \in {updateRole(roles, id, body)} :
         roles' = out.roles /\ call' = RoleCalled(out)
  /\ UNCHANGED <<env, now, payload, pair, vcall, users, issued, reqs, hpcall, revoked, proc>>

CallDeleteRole ==
  /\ \E id \in RoleStoreIds :
       \E out \in {deleteRole(roles, id)} :
         roles' = out.roles /\ call' = RoleCalled(out)
  /\ UNCHANGED <<env, now, payload, pair, vcall, users, issued, reqs, hpcall, revoked, proc>>

\* npm run seed between the calls
ReseedRoles ==
  /\ roles' = seedRoles(roles).roles
  /\ call' = NotCalled
  /\ UNCHANGED <<env, now, payload, pair, vcall, users, issued, reqs, hpcall, revoked, proc>>

NextRoleStore == CallCreateRole \/ CallUpdateRole \/ CallDeleteRole \/ ReseedRoles

SpecRoleStore == InitRoleStore /\ [][NextRoleStore]_vars

NoRepeats(s) == \A i, j \in 1..Len(s) : s[i] = s[j] => i = j

\* C22: in every reachable state every stored role has a code that is upper-case,
\* matches [A-Z_]+ and is the code of no other role, and a permission list whose
\* entries are upper-case and trimmed and occur once.
C22_RoleStoreWellFormed ==
  \A i \in 1..Len(roles) :
    /\ roles[i].code = toUpperCase(roles[i].code)
    /\ Len(roles[i].code) >= 1
    /\ \A k \in 1..Len(roles[i].code) : roles[i].code[k] \in SeqToSet(UpperChars) \cup {"_"}
    /\ \A j \in 1..Len(roles) : roles[j].code = roles[i].code => j = i
    /\ \A k \in 1..Len(roles[i].permissions) :
         /\ roles[i].permissions[k] = toUpperCase(roles[i].permissions[k])
         /\ roles[i].permissions[k] = trim(roles[i].permissions[k])
    /\ NoRepeats(roles[i].permissions)

C22_Witness ==
  /\ call.called /\ call.status = 200
  /\ Len(roles) > Len(defaultRoles)
  /\ \E i \in 1..Len(roles) :
       /\ roles[i].code = toUpperCase(NewRoleCode)
       /\ roles[i].permissions = <<USER_READ, USER_CREATE>>

----------------------------------------------------------------------------
(* Specification of updateMyProfile: the handler is called again and again, for
   any identity and with any body, on a users collection some of whose users are
   inactive, while the clock advances *)

\* the identities authenticate leaves in req.user: those of the stored users, one
\* of a user that is not stored, one without user_id
ProfileIdentities ==
  {[user_id |-> Uid(k), email |-> RequestUsers[k].email,
    role |-> roleCodesOf(SeededRoles, RequestUsers[k].roles)] : k \in 1..Len(RequestUsers)}
  \cup {[user_id |-> Uid(Len(RequestUsers) + 1), email |-> NewEmail, role |-> <<USER>>],
         [email |-> NewEmail, role |-> <<USER>>]}

ProfileBodies ==
  UpdateMyProfileBodies
  \cup {[email |-> Padded(<<"M","e","@","x",".","i","o">>), password |-> adminConfig.password,
          roles |-> <<ADMIN>>, active |-> FALSE],
         [password |-> NewPassword, roles |-> <<>>, active |-> TRUE]}

InitProfile ==
  /\ env = ServiceEnv
  /\ now = 0
  /\ roles = SeededRoles
  /\ users \in {RequestUsers, Deactivated(RequestUsers, {1, 3})}
  /\ issued = <<>>
  /\ reqs = <<Idle>>
  /\ revoked = {}
  /\ payload = GatePayload /\ pair = NotCalled /\ vcall = NotCalled /\ hpcall = NotCalled /\ call = NotCalled /\ proc = NoProcess

\* updateMyProfile is called with req.user = reqUser and req.body = body
CallUpdateMyProfile ==
  /\ \E reqUser \in ProfileIdentities, body \in ProfileBodies :
       \E out \in {updateMyProfile(users, roles, reqUser, body, now)} :
         /\ users' = out.users
         /\ call' = [called |-> TRUE, reqUser |-> reqUser, restricted |-> "active" \in DOMAIN body,
                     before |-> users, status |-> out.response.status]
  /\ UNCHANGED <<env, now, payload, pair, vcall, roles, issued, reqs, hpcall, revoked, proc>>

NextProfile == Tick \/ CallUpdateMyProfile

SpecProfile == InitProfile /\ [][NextProfile]_vars

\* the _id of the record the call's token names, 0 when it names none
Caller == IF Falsy(call.reqUser, "user_id") THEN 0 ELSE findById(call.before, call.reqUser.user_id)

\* C23: after updateMyProfile, whatever the body held, the caller's roles and
\* active flag are what they were, every record other than the one named by the
\* token's user_id is what it was, and no record was added or removed.
C23_ProfileFrame ==
  call.called =>
    /\ Len(users) = Len(call.before)
    /\ \A k \in 1..Len(users) :
         IF k = Caller
         THEN users[k].roles = call.before[k].roles /\ users[k].active = call.before[k].active
         ELSE users[k] = call.before[k]

C23_Witness ==
  /\ call.called /\ call.status = 200 /\ call.restricted
  /\ Caller # 0
  /\ call.before[Caller].active
  /\ users[Caller].email # call.before[Caller].email
  /\ users[Caller].updatedAt > call.before[Caller].updatedAt

----------------------------------------------------------------------------
(* Specification of the roles of a user: createUser and updateUser are called
   with role lists of every kind while roles are deactivated and activated *)

\* the role lists clients send
RoleListInputs ==
  {<<ADMIN>>, <<USER, ADMIN>>, <<toLowerCase(ADMIN), USER>>, <<ADMIN, ADMIN>>,
   <<NewRoleCode>>, <<SUB_ADMIN, NewRoleCode>>, <<>>}

UserRolesCreateBodies ==
  {[email |-> NewEmail, password |-> NewPassword]}
  \cup {[email |-> NewEmail, password |-> NewPassword, roles |-> listed] : listed \in RoleListInputs}

UserRolesUpdateBodies ==
  {[password |-> NewPassword]} \cup {[roles |-> listed] : listed \in RoleListInputs}

InitUserRoles ==
  /\ env = ServiceEnv
  /\ now = 0
  /\ roles = SeededRoles
  /\ users = SeededUsers
  /\ issued = <<>>
  /\ reqs = <<Idle>>
  /\ revoked = {}
  /\ payload = GatePayload /\ pair = NotCalled /\ vcall = NotCalled /\ hpcall = NotCalled /\ call = NotCalled /\ proc = NoProcess

\* what a call of createUser or updateUser for the user id with the body leaves behind
UserRolesCalled(id, body, out) ==
  [called |-> TRUE, id |-> id,
   given |-> "roles" \in DOMAIN body,
   listed |-> IF "roles" \in DOMAIN body THEN body.roles ELSE <<>>,
   create |-> "email" \in DOMAIN body,
   response |-> out.response]

CallCreateUser ==
  /\ \E body \in UserRolesCreateBodies :
       \E out \in {createUser(users, roles, body, now)} :
         /\ users' = out.users
         /\ call' = UserRolesCalled(Len(users) + 1, body, out)
  /\ UNCHANGED <<env, now, payload, pair, vcall, roles, issued, reqs, hpcall, revoked, proc>>

CallUpdateUser ==
  /\ \E id \in 1..Len(users), body \in UserRolesUpdateBodies :
       \E out \in {updateUser(users, roles, id, body, now)} :
         /\ users' = out.users
         /\ call' = UserRolesCalled(id, body, out)
  /\ UNCHANGED <<env, now, payload, pair, vcall, roles, issued, reqs, hpcall, revoked, proc>>

\* the role controller deactivates or activates a role; the call before is forgotten
SwitchRole ==
  /\ \E id \in 1..Len(roles), body \in UpdateRoleBodies :
       roles' = updateRole(roles, id, body).roles
  /\ roles' # roles
  /\ call' = NotCalled
  /\ UNCHANGED <<env, now, payload, pair, vcall, users, issued, reqs, hpcall, revoked, proc>>

NextUserRoles == CallCreateUser \/ CallUpdateUser \/ SwitchRole

SpecUserRoles == InitUserRoles /\ [][NextUserRoles]_vars

\* the code, in whatever case it was sent, is the code of an active role
ActiveCode(rs, code) == \E i \in 1..Len(rs) : rs[i].active /\ rs[i].code = toUpperCase(code)

InvalidRoleCodes == errorResponse("One or more invalid role codes provided", Null, 400)

\* the call got as far as the roles: the id and the e-mail were accepted
ReachedRoles ==
  call.called /\ (call.response.status \in {200, 201} \/ call.response = InvalidRoleCodes)

\* C24: createUser and updateUser called with a non-empty roles list answer 400
\* 'One or more invalid role codes provided' exactly when some listed code is not
\* the code of an active role, and otherwise the user's roles are exactly the
\* active roles the list names; createUser without roles, and either handler with
\* an empty list, give the user the USER role.
C24_RolesResolved ==
  ReachedRoles =>
    IF call.given /\ Len(call.listed) > 0
    THEN /\ (call.response = InvalidRoleCodes)
              <=> (\E k \in 1..Len(call.listed) : ~ActiveCode(roles, call.listed[k]))
         /\ (call.response # InvalidRoleCodes) =>
              SeqToSet(users[call.id].roles)
                = {i \in 1..Len(roles) :
                     roles[i].active /\ \E k \in 1..Len(call.listed) :
                                          roles[i].code = toUpperCase(call.listed[k])}
    ELSE (call.given \/ call.create) =>
           /\ Len(users[call.id].roles) = 1
           /\ roles[users[call.id].roles[1]].code = USER

----------------------------------------------------------------------------
(* Specification of the server process: startServer, the MongoDB connection of
   database/db.config.ts, client connections, and gracefulShutdown on SIGTERM and
   SIGINT *)

Signals == {"SIGTERM", "SIGINT"}

\* the clients that open connections to the server
Clients == {"c1", "c2", "c3"}

\* the codes the process has exited with: none while it runs
Running == <<>>

\* the process when the module is loaded; mongoUrl says whether MONGO_DB_URL is set
Loaded(mongoUrl) ==
  [pc |-> "startServer", mongoUrl |-> mongoUrl, server |-> "null", conns |-> {},
   readyState |-> 0, isConnected |-> FALSE,
   shutdown |-> [sig \in Signals |-> "idle"], exitCode |-> Running,
   connectCompleted |-> FALSE, connectFailed |-> FALSE, disconnectFailed |-> FALSE]

ProcFrame == UNCHANGED <<env, now, payload, pair, vcall, roles, users, issued, reqs, hpcall, call, revoked>>

\* a startServer that listens before it connects
connectDBAfterListen ==
  /\ proc.pc = "startServer" /\ proc.exitCode = Running
  /\ proc' = IF ~proc.mongoUrl
             THEN [proc EXCEPT !.pc = "failed", !.server = "listening", !.isConnected = FALSE,
                               !.connectFailed = TRUE, !.exitCode = <<1>>]
             ELSE [proc EXCEPT !.pc = "connecting", !.server = "listening", !.readyState = 2]
  /\ ProcFrame

\* startServer() up to its await: connectDB() throws when MONGO_DB_URL is missing,
\* and startServer exits with code 1; otherwise mongoose.connect is under way
connectDB ==
  /\ proc.pc = "startServer" /\ proc.exitCode = Running
  /\ proc' = IF ~proc.mongoUrl
             THEN [proc EXCEPT !.pc = "failed", !.isConnected = FALSE,
                               !.connectFailed = TRUE, !.exitCode = <<1>>]
             ELSE [proc EXCEPT !.pc = "connecting", !.readyState = 2]
  /\ ProcFrame

\* mongoose.connect resolves: connectDB returns and startServer calls app.listen
connectResolved ==
  /\ proc.pc = "connecting" /\ proc.exitCode = Running
  /\ proc' = [proc EXCEPT !.pc = "started",
                          !.readyState = IF @ = 2 THEN 1 ELSE @,
                          !.isConnected = TRUE, !.connectCompleted = TRUE,
                          !.server = "listening"]
  /\ ProcFrame

\* mongoose.connect rejects: connectDB rethrows and startServer exits with code 1
connectRejected ==
  /\ proc.pc = "connecting" /\ proc.exitCode = Running
  /\ proc' = [proc EXCEPT !.pc = "failed",
                          !.readyState = IF @ = 2 THEN 0 ELSE @,
                          !.isConnected = FALSE, !.connectFailed = TRUE, !.exitCode = <<1>>]
  /\ ProcFrame

\* a client connection is opened on the listening server, or an open one ends
clientConnection ==
  /\ proc.exitCode = Running
  /\ \E c \in Clients :
       \/ proc.server = "listening" /\ c \notin proc.conns
            /\ proc' = [proc EXCEPT !.conns = @ \cup {c}]
       \/ c \in proc.conns /\ proc' = [proc EXCEPT !.conns = @ \ {c}]
  /\ ProcFrame

\* mongoose emits 'disconnected' when the connection to MongoDB is lost
connectionLost ==
  /\ proc.exitCode = Running
  /\ proc.readyState = 1
  /\ proc' = [proc EXCEPT !.readyState = 0, !.isConnected = FALSE]
  /\ ProcFrame

\* mongoose emits 'reconnected' when it has the connection back
reconnected ==
  /\ proc.exitCode = Running
  /\ proc.pc = "started" /\ proc.readyState = 0
  /\ \A signal \in Signals : proc.shutdown[signal] = "idle"
  /\ proc' = [proc EXCEPT !.readyState = 1, !.isConnected = TRUE]
  /\ ProcFrame

\* gracefulShutdown(signal) up to its await: server.close() is called and not
\* waited for; disconnectDB() returns at once when the connection is down, and
\* the process exits with code 0, otherwise mongoose.disconnect is under way
gracefulShutdown(signal) ==
  /\ proc.pc # "startServer" /\ proc.exitCode = Running
  /\ proc.shutdown[signal] = "idle"
  /\ proc' = [proc EXCEPT
                !.server = IF @ = "listening" THEN "closing" ELSE @,
                !.readyState = IF @ # 0 THEN 3 ELSE @,
                !.shutdown[signal] = IF proc.readyState # 0 THEN "disconnecting" ELSE "done",
                !.exitCode = IF proc.readyState # 0 THEN @ ELSE <<0>>]
  /\ ProcFrame

\* the closing server has no open connection left and calls back
serverClosed ==
  /\ proc.exitCode = Running
  /\ proc.server = "closing" /\ proc.conns = {}
  /\ proc' = [proc EXCEPT !.server = "closed"]
  /\ ProcFrame

\* mongoose.disconnect resolves: disconnectDB returns and gracefulShutdown exits
\* with code 0
disconnectResolved(signal) ==
  /\ proc.exitCode = Running
  /\ proc.shutdown[signal] = "disconnecting"
  /\ proc' = [proc EXCEPT !.readyState = 0, !.isConnected = FALSE,
                          !.shutdown[signal] = "done", !.exitCode = <<0>>]
  /\ ProcFrame

\* mongoose.disconnect rejects: disconnectDB rethrows and gracefulShutdown exits
\* with code 1
disconnectRejected(signal) ==
  /\ proc.exitCode = Running
  /\ proc.shutdown[signal] = "disconnecting"
  /\ proc' = [proc EXCEPT !.shutdown[signal] = "done", !.disconnectFailed = TRUE,
                          !.exitCode = <<1>>]
  /\ ProcFrame

InitProc ==
  /\ env = ServiceEnv
  /\ now = 0
  /\ roles = SeededRoles
  /\ users = SeededUsers
  /\ issued = <<>>
  /\ reqs = <<Idle>>
  /\ revoked = {}
  /\ payload = GatePayload /\ pair = NotCalled /\ vcall = NotCalled /\ hpcall = NotCalled /\ call = NotCalled
  /\ proc \in {Loaded(mongoUrl) : mongoUrl \in BOOLEAN}

NextProc ==
  \/ connectDB
  \/ connectResolved
  \/ connectRejected
  \/ clientConnection
  \/ connectionLost
  \/ reconnected
  \/ \E signal \in Signals : gracefulShutdown(signal)
  \/ serverClosed
  \/ \E signal \in Signals : disconnectResolved(signal)
  \/ \E signal \in Signals : disconnectRejected(signal)

SpecProc == InitProc /\ [][NextProc]_vars

\* C25: whenever the process has exited with code 0 the HTTP server, if it was
\* started, has finished closing and the MongoDB connection is down; and when
\* disconnectDB failed the process has exited with code 1. Both signals may
\* arrive, in any order and at any moment.
C25_ShutdownClosesBoth ==
  /\ proc.exitCode = <<0>> => (proc.server \in {"null", "closed"} /\ proc.readyState = 0)
  /\ proc.disconnectFailed => proc.exitCode = <<1>>

\* C26: the HTTP server exists only after connectDB has completed successfully;
\* and when connectDB has failed, a missing MONGO_DB_URL included, the process
\* has exited with code 1, the server was never started and the connected flag
\* is false.
C26_ConnectBeforeListen ==
  /\ proc.server # "null" => proc.connectCompleted
  /\ proc.connectFailed =>
       (proc.exitCode = <<1>> /\ proc.server = "null" /\ ~proc.isConnected /\ ~proc.connectCompleted)

C26_Witness ==
  /\ proc.connectFailed /\ proc.mongoUrl
  /\ proc.exitCode = <<1>>
  /\ \E signal \in Signals : proc.shutdown[signal] = "disconnecting"

\* ---------------------------------------------------------------------------
\* updateUser and the stored record (user.controller.ts, updateUser)
\* ---------------------------------------------------------------------------

\* an e-mail address no stored user holds, and another password
AltEmail == <<"m", "e", "@", "x", ".", "i", "o">>

AltPassword == "Other@12345"

\* bodies of PUT /api/users/:id: an e-mail another user holds, a new e-mail with
\* an unknown role code, a new password with a repeated role code, and updates
\* that pass
UpdateStoreBodies ==
  {[email |-> NewEmail, active |-> FALSE],
   [email |-> Padded(AltEmail), active |-> FALSE, roles |-> <<NewRoleCode>>],
   [password |-> AltPassword, roles |-> <<ADMIN, ADMIN>>],
   [email |-> AltEmail],
   [active |-> FALSE, roles |-> <<ADMIN>>],
   [password |-> AltPassword, active |-> TRUE, roles |-> <<>>]}

\* the ids of the requests: no ObjectId, a stored user, and an id no user has
UpdateStoreIds == {0, 2, Len(users) + 1}

InitUpdate ==
  /\ env = ServiceEnv /\ now = 0 /\ payload = Null /\ pair = Null /\ vcall = Null
  /\ roles = SeededRoles
  /\ users = RequestUsers
  /\ issued = {} /\ reqs = <<>> /\ hpcall = Null /\ revoked = {}
  /\ call = NotCalled
  /\ proc = NoProcess

\* PUT /api/users/:id; a query of the handler may reject, and the catch answers 500
CallUpdateUserStore ==
  /\ \E id \in UpdateStoreIds, body \in UpdateStoreBodies, rejects \in BOOLEAN :
       \E out \in {IF rejects /\ isValidId(id)
                   THEN [users |-> users, response |-> dbFailure("Failed to update user")]
                   ELSE updateUser(users, roles, id, body, now)} :
         /\ users' = out.users
         /\ call' = [called |-> TRUE, id |-> id, before |-> users,
                     status |-> out.response.status, message |-> out.response.body.message]
  /\ UNCHANGED <<env, now, payload, pair, vcall, roles, issued, reqs, hpcall, revoked, proc>>

NextUpdate == Tick \/ CallUpdateUserStore

SpecUpdate == InitUpdate /\ [][NextUpdate]_vars

\* C27: whenever updateUser answers 400, 404, 409 or 500 without having saved,
\* the user collection is what it was before the call: no e-mail, password,
\* role list or active flag of the request is stored
C27_ErrorLeavesRecord ==
  (call.called /\ "before" \in DOMAIN call /\ call.status \in {400, 404, 409, 500})
    => users = call.before

\* an update that changes the e-mail and the active flag and names an unknown
\* role code is answered 400
C27_Witness ==
  /\ call.called /\ "message" \in DOMAIN call
  /\ call.status = 400
  /\ call.message = "One or more invalid role codes provided"
  /\ call.id \in 1..Len(users)
  /\ users[call.id].active
  /\ users[call.id].email # AltEmail

\* ---------------------------------------------------------------------------
\* Issued access tokens and later writes to their users
\* (auth.middleware.ts, permission.middleware.ts, user.controller.ts)
\* ---------------------------------------------------------------------------

InitToken ==
  /\ env = ServiceEnv
  /\ now = 0
  /\ roles = SeededRoles
  /\ users = RequestUsers
  /\ issued = RequestLogins
  /\ reqs = <<Idle>>
  /\ revoked = {}
  /\ payload = GatePayload /\ pair = NotCalled /\ vcall = NotCalled /\ hpcall = NotCalled
  /\ call = NotCalled /\ proc = NoProcess

\* the user whose record is written while their token is in use: the seeded
\* administrator
TokenWriteIds == {1}

\* DELETE or PUT /api/users/:id on that user, answered 200; call keeps whether the
\* request on the connection had yet to reach authenticate at the time
WriteTokenUser ==
  /\ \E id \in TokenWriteIds :
       \E out \in {deleteUser(users, id, now)}
                   \cup {updateUser(users, roles, id, body, now) : body \in UpdateUserBodies} :
         /\ out.response.status = 200
         /\ users' = out.users
         /\ call' = [called |-> TRUE, early |-> reqs[1].pc \in {"idle", "authenticate"}]
  /\ UNCHANGED <<env, now, payload, pair, vcall, roles, issued, reqs, hpcall, revoked, proc>>

NextToken ==
  \/ Tick
  \/ WriteTokenUser
  \/ Receive(1, ReadRoutes, RequestHeaders)
  \/ Authenticate(1)
  \/ RequirePermission(1)
  \/ Lookup(1)
  \/ Handler(1)
  \/ Close(1)

SpecToken == InitToken /\ [][NextToken]_vars

\* both gates have decided on the request
GateDecided(r) == r.pc \notin {"idle", "authenticate", "requirePermission", "lookup"}

\* both gates called next
PassedBoth(r) ==
  Len(r.trace) >= Len(PassedGates) /\ SubSeq(r.trace, 1, Len(PassedGates)) = PassedGates

\* what the gates did to the request: whether both let it pass, and the status
\* with which one of them answered it
GateView(r) ==
  [passed |-> PassedBoth(r), status |-> IF PassedBoth(r) THEN 0 ELSE r.sent[1].status]

\* what authenticate and requirePermission do to a request with these headers for
\* this route at time t with role collection rs, the role query succeeding
GateResult(headers, route, e, t, rs) ==
  LET a == authenticate(headers, e, t) IN
    IF ~a.next THEN [passed |-> FALSE, status |-> a.sent[1].status]
    ELSE IF Grants(rs, a.user.value.role, route.permission)
    THEN [passed |-> TRUE, status |-> 0]
    ELSE [passed |-> FALSE, status |-> 403]

\* the stored user the request's token was issued to
TokenUsers(r) == {u \in 1..Len(users) : r.user.set /\ users[u].email = r.user.value.email}

\* C28: what authenticate and requirePermission decide on a request is what the
\* request's token, the time of its verification and the role collection give,
\* whatever the users collection holds: a token issued to a user who has since
\* been deactivated or given other roles is allowed or denied as before, and is
\* answered 401 once it has expired
C28_GateIgnoresUserStore ==
  LET r == reqs[1] IN
    (GateDecided(r) /\ ~LookupFailed(r)) =>
      /\ \E t \in 0..now : GateView(r) = GateResult(r.headers, r.route, env, t, roles)
      /\ r.user.set =>
           GateView(r) = GateResult(r.headers, r.route, env, 0, roles)

\* a request that arrived after the last write to the users collection, with the
\* access token of a user who is now deactivated and holds other roles than the
\* token names, has passed both gates
C28_Witness ==
  LET r == reqs[1] IN
    /\ call.called /\ "early" \in DOMAIN call /\ call.early
    /\ GateDecided(r) /\ PassedBoth(r)
    /\ \E u \in TokenUsers(r) :
         /\ ~users[u].active
         /\ [k \in 1..Len(users[u].roles) |-> roles[users[u].roles[k]].code] # r.user.value.role

====
